---- MODULE Spec2Model ----
(***************************************************************************)
(* SerialLink: the serial Session Manager (internal/serial/manager.go),    *)
(* the streaming Reader (internal/serial reader) and the gRPC facade       *)
(* (api server) as one state machine.                                      *)
(*                                                                         *)
(* Sessions, channels and Readers are heap objects: a reference is the     *)
(* object's index in its heap sequence, None is the nil reference.  The    *)
(* session id (a uuid in the code) is the session's heap index, so it is   *)
(* fresh for every Session the manager constructs.                         *)
(***************************************************************************)
EXTENDS Integers, Sequences, FiniteSets, TLC

\* ---------------------------------------------------------------- bounds
MaxSessions == 2
MaxChans == 2
\* most bytes one driver read or write moves
MaxChunk == 1
\* most bytes and errors a session's statistics count
MaxIO == 2
MaxReaders == 2
\* most events one read loop produces
MaxSeq == 3
\* capacity of a subscriber channel; make(chan, 100) in the code, scaled down
ChanCap == 1

\* most events the channel of a LineReader carries
MaxEvents == 2
\* most bytes one DataEvent carries to a LineReader
MaxData == 3
\* the maxLineSize a LineReader is constructed with
MaxLineSize == 2

None == 0
\* no callback of a port watch has run
NoCallback == [added |-> {}, removed |-> {}, current |-> {}]
Ports == {"COM3", "COM4"}
\* client tasks; the holder of a session's mutex is a task, or -r for the
\* read loop of Reader r
Tasks == {1, 2}
IoTasks == {1}

\* ------------------------------------------------- port types and config
ParityNone == 0
ParityOdd == 1
ParityEven == 2
ParityMark == 3
ParitySpace == 4
StopBits1 == 0
StopBits1Half == 1
StopBits2 == 2
FlowControlNone == 0
FlowControlHardware == 1
FlowControlSoftware == 2

DefaultConfig ==
  [BaudRate |-> 9600, DataBits |-> 8, StopBits |-> StopBits1,
   Parity |-> ParityNone, FlowControl |-> FlowControlNone,
   ReadTimeoutMs |-> 1000, WriteTimeoutMs |-> 1000]

FastConfig == [DefaultConfig EXCEPT !.BaudRate = 115200, !.ReadTimeoutMs = 0]

BadConfig == [DefaultConfig EXCEPT !.DataBits = 9]

validBaudRates ==
  {300, 600, 1200, 2400, 4800, 9600, 19200, 38400, 57600, 115200,
   230400, 460800, 921600}

\* PortConfig.ToSerialMode: what Open and SetMode hand to the driver (the
\* flow control and the timeouts are not part of it)
ToSerialMode(c) ==
  [BaudRate |-> c.BaudRate, DataBits |-> c.DataBits, StopBits |-> c.StopBits,
   Parity |-> c.Parity]

\* no mode: the call handed none to the driver, or the driver refused it
NoMode == [BaudRate |-> 0, DataBits |-> 0, StopBits |-> 0, Parity |-> 0]

\* PortConfig.Validate: TRUE iff the code returns nil
Validate(c) ==
  /\ ~(c.BaudRate < 1)
  /\ ~(c.BaudRate \notin validBaudRates /\ c.BaudRate < 300)
  /\ ~(c.DataBits < 5 \/ c.DataBits > 8)
  /\ ~(c.StopBits < StopBits1 \/ c.StopBits > StopBits2)
  /\ ~(c.Parity < ParityNone \/ c.Parity > ParitySpace)
  /\ ~(c.FlowControl < FlowControlNone \/ c.FlowControl > FlowControlSoftware)

\* ----------------------------------------- pb.PortConfig and its conversions
\* a pb.PortConfig with the default values of the serial section; nil marks
\* a request that carries no config message
PbDefault ==
  [nil |-> FALSE, BaudRate |-> 9600, DataBits |-> 8,
   StopBits |-> "STOP_BITS_1", Parity |-> "PARITY_NONE",
   FlowControl |-> "FLOW_CONTROL_NONE",
   ReadTimeoutMs |-> 1000, WriteTimeoutMs |-> 1000]

NilConfig == [PbDefault EXCEPT !.nil = TRUE]

\* SerialServer.config.Serial.Defaults
VARIABLE defaults

\* config.SerialDefaults of the default configuration
SerialDefaults ==
  [BaudRate |-> 9600, DataBits |-> 8, StopBits |-> 1,
   Parity |-> "none", FlowControl |-> "none",
   ReadTimeoutMs |-> 1000, WriteTimeoutMs |-> 1000]

convertStopBits(sb) ==
  CASE sb = "STOP_BITS_1" -> StopBits1
    [] sb = "STOP_BITS_1_5" -> StopBits1Half
    [] sb = "STOP_BITS_2" -> StopBits2
    [] OTHER -> StopBits1

convertStopBitsBack(sb) ==
  CASE sb = StopBits1 -> "STOP_BITS_1"
    [] sb = StopBits1Half -> "STOP_BITS_1_5"
    [] sb = StopBits2 -> "STOP_BITS_2"
    [] OTHER -> "STOP_BITS_1"

convertParity(par) ==
  CASE par = "PARITY_NONE" -> ParityNone
    [] par = "PARITY_ODD" -> ParityOdd
    [] par = "PARITY_EVEN" -> ParityEven
    [] par = "PARITY_MARK" -> ParityMark
    [] par = "PARITY_SPACE" -> ParitySpace
    [] OTHER -> ParityNone

\* a conversion with the case of mark parity left out
convertParityBack_NoMark(par) ==
  CASE par = ParityNone -> "PARITY_NONE"
    [] par = ParityOdd -> "PARITY_ODD"
    [] par = ParityEven -> "PARITY_EVEN"
    [] par = ParitySpace -> "PARITY_SPACE"
    [] OTHER -> "PARITY_NONE"

convertParityBack(par) ==
  CASE par = ParityNone -> "PARITY_NONE"
    [] par = ParityOdd -> "PARITY_ODD"
    [] par = ParityEven -> "PARITY_EVEN"
    [] par = ParityMark -> "PARITY_MARK"
    [] par = ParitySpace -> "PARITY_SPACE"
    [] OTHER -> "PARITY_NONE"

convertFlowControl(fc) ==
  CASE fc = "FLOW_CONTROL_NONE" -> FlowControlNone
    [] fc = "FLOW_CONTROL_HARDWARE" -> FlowControlHardware
    [] fc = "FLOW_CONTROL_SOFTWARE" -> FlowControlSoftware
    [] OTHER -> FlowControlNone

convertFlowControlBack(fc) ==
  CASE fc = FlowControlNone -> "FLOW_CONTROL_NONE"
    [] fc = FlowControlHardware -> "FLOW_CONTROL_HARDWARE"
    [] fc = FlowControlSoftware -> "FLOW_CONTROL_SOFTWARE"
    [] OTHER -> "FLOW_CONTROL_NONE"

\* SerialServer.convertToSerialConfig; int(uint32) keeps the number
convertToSerialConfig(cfg) ==
  IF cfg.nil
    THEN [BaudRate |-> defaults.BaudRate,
          DataBits |-> defaults.DataBits,
          StopBits |-> defaults.StopBits,
          Parity |-> ParityNone, FlowControl |-> FlowControlNone,
          ReadTimeoutMs |-> defaults.ReadTimeoutMs,
          WriteTimeoutMs |-> defaults.WriteTimeoutMs]
    ELSE [BaudRate |-> cfg.BaudRate, DataBits |-> cfg.DataBits,
          StopBits |-> convertStopBits(cfg.StopBits),
          Parity |-> convertParity(cfg.Parity),
          FlowControl |-> convertFlowControl(cfg.FlowControl),
          ReadTimeoutMs |-> cfg.ReadTimeoutMs,
          WriteTimeoutMs |-> cfg.WriteTimeoutMs]

\* SerialServer.convertFromSerialConfig; the numbers a request can carry fit
\* uint32, and pb.DataBits(n) is the enum value of number n
convertFromSerialConfig(cfg) ==
  [nil |-> FALSE, BaudRate |-> cfg.BaudRate, DataBits |-> cfg.DataBits,
   StopBits |-> convertStopBitsBack(cfg.StopBits),
   Parity |-> convertParityBack(cfg.Parity),
   FlowControl |-> convertFlowControlBack(cfg.FlowControl),
   ReadTimeoutMs |-> cfg.ReadTimeoutMs,
   WriteTimeoutMs |-> cfg.WriteTimeoutMs]

\* ------------------------------------------------------------------ state
VARIABLES
  allowSharedAccess, \* Manager.allowSharedAccess
  sessions,          \* Manager.sessions: port name -> Session reference
  sessionsByID,      \* Manager.sessionsByID: session id -> Session reference
  heap,              \* every Session constructed so far, by reference
  chans,             \* every subscriber channel made so far, by reference
  tasks,             \* client tasks inside a Manager operation
  driverReads,       \* per port: number of chunks the driver has returned
  readers,           \* every Reader constructed so far, by reference
  srvReaders,        \* SerialServer.readers: port name -> Reader reference
  closedOK,          \* history: sessions for which ClosePort returned nil
  watch,             \* the port watch of Scanner.WatchPorts
  lineReader,        \* a LineReader, the channel it reads and its results
  last               \* the call completed by the last step, and its answer

vars ==
  <<allowSharedAccess, defaults, sessions, sessionsByID, heap, chans, tasks,
    driverReads, readers, srvReaders, closedOK, watch, lineReader, last>>

ErrNil == "nil"
ErrPortNotOpen == "port is not open"
ErrPortLocked == "port is locked by another client"
ErrInvalidSession == "invalid session ID"
ErrInvalidConfig == "invalid port configuration"
ErrPortClosed == "port has been closed"
\* errors of the driver library, wrapped by the manager with fmt.Errorf
ErrOpenFailed == "failed to open port"
ErrSetTimeoutFailed == "failed to set read timeout"
ErrWriteFailed == "write failed"
ErrReadFailed == "read failed"
ErrConfigureFailed == "failed to configure port"
ErrFlushFailed == "failed to reset buffer"
ErrCloseFailed == "close failed"

SessionRefs == 1..Len(heap)
ChanRefs == 1..Len(chans)

\* Session.IsClosed
IsClosed(s) == heap[s].closed

IdleTask ==
  [pc |-> "idle", op |-> "none", sref |-> None, cfg |-> DefaultConfig,
   ch |-> None, len |-> 0, rd |-> None, req |-> NilConfig,
   \* the guards the task holds, the statement of its operation's guard
   \* program it is at, and whether it is inside a Lock() call
   held |-> {}, at |-> 0, pending |-> FALSE,
   \* SerialServer.Write: req.Flush and the count manager.Write returned
   flush |-> FALSE, n |-> 0]

\* op: the operation; err: the manager's error; ret: the session or count
\* returned; success, message, code: the facade's answer; driver: the driver
\* calls the step issued; onClosed: one of them was on a closed handle;
\* req: the config message of a ConfigurePort request; session: the session
\* a Configure call worked on
NoCall ==
  [op |-> "none", err |-> ErrNil, ret |-> None, success |-> TRUE,
   message |-> "", code |-> "OK", driver |-> {}, onClosed |-> FALSE,
   req |-> NilConfig, session |-> None, failed |-> {}, mode |-> NoMode]

\* serial.ParseParity, of a lower-case string
ParseParity(value) ==
  CASE value \in {"", "none"} -> [v |-> ParityNone, err |-> ErrNil]
    [] value = "odd" -> [v |-> ParityOdd, err |-> ErrNil]
    [] value = "even" -> [v |-> ParityEven, err |-> ErrNil]
    [] value = "mark" -> [v |-> ParityMark, err |-> ErrNil]
    [] value = "space" -> [v |-> ParitySpace, err |-> ErrNil]
    [] OTHER -> [v |-> ParityNone, err |-> ErrInvalidConfig]

\* serial.ParseFlowControl, of a lower-case string
ParseFlowControl(value) ==
  CASE value \in {"", "none"} -> [v |-> FlowControlNone, err |-> ErrNil]
    [] value \in {"hardware", "hw", "rts/cts"} ->
         [v |-> FlowControlHardware, err |-> ErrNil]
    [] value \in {"software", "sw", "xon/xoff"} ->
         [v |-> FlowControlSoftware, err |-> ErrNil]
    [] OTHER -> [v |-> FlowControlNone, err |-> ErrInvalidConfig]

\* serial.ParseStopBits
ParseStopBits(value) ==
  CASE value = 1 -> [v |-> StopBits1, err |-> ErrNil]
    [] value = 2 -> [v |-> StopBits2, err |-> ErrNil]
    [] OTHER -> [v |-> StopBits1, err |-> ErrInvalidConfig]

\* SerialDefaults.ToPortConfig
ToPortConfig(d) ==
  LET parity == ParseParity(d.Parity)
      flowControl == ParseFlowControl(d.FlowControl)
      stopBits == ParseStopBits(d.StopBits)
      zero == [BaudRate |-> 0, DataBits |-> 0, StopBits |-> 0, Parity |-> 0,
               FlowControl |-> 0, ReadTimeoutMs |-> 0, WriteTimeoutMs |-> 0]
  IN IF parity.err # ErrNil THEN [config |-> zero, err |-> parity.err]
     ELSE IF flowControl.err # ErrNil
       THEN [config |-> zero, err |-> flowControl.err]
     ELSE IF stopBits.err # ErrNil
       THEN [config |-> zero, err |-> stopBits.err]
     ELSE [config |-> [BaudRate |-> d.BaudRate, DataBits |-> d.DataBits,
                       StopBits |-> stopBits.v, Parity |-> parity.v,
                       FlowControl |-> flowControl.v,
                       ReadTimeoutMs |-> d.ReadTimeoutMs,
                       WriteTimeoutMs |-> d.WriteTimeoutMs],
           err |-> ErrNil]

\* Config.Validate, the part about the serial defaults
ValidateDefaults(d) ==
  /\ d.BaudRate >= 1
  /\ d.DataBits >= 5 /\ d.DataBits <= 8
  /\ ToPortConfig(d).err = ErrNil

\* the serial defaults a configuration file can hold
DefaultsValues ==
  [BaudRate : {9600}, DataBits : {8}, StopBits : {1, 2, 3},
   Parity : {"", "none", "odd", "even", "mark", "space", "bogus"},
   FlowControl : {"", "none", "hardware", "hw", "rts/cts", "software", "sw",
                  "xon/xoff", "bogus"},
   ReadTimeoutMs : {1000}, WriteTimeoutMs : {1000}]

\* no port watch started: no stop channel, no watch goroutine
NoWatch ==
  [made |-> FALSE, interval |-> 0, stopCloses |-> 0, loop |-> "none",
   lastPorts |-> {}, callback |-> NoCallback, late |-> FALSE]

\* no LineReader constructed
NoLineReader ==
  [made |-> FALSE, delimiter |-> 0, maxLine |-> 0, buffer |-> <<>>,
   events |-> <<>>, input |-> <<>>, lines |-> <<>>, err |-> ErrNil]

\* NewManager, NewSerialServer
InitManager ==
  /\ allowSharedAccess \in BOOLEAN
  /\ sessions = [p \in Ports |-> None]
  /\ sessionsByID = [i \in 1..MaxSessions |-> None]
  /\ heap = <<>>
  /\ chans = <<>>
  /\ tasks = [t \in Tasks |-> IdleTask]
  /\ driverReads = [p \in Ports |-> 0]
  /\ readers = <<>>
  /\ srvReaders = [p \in Ports |-> None]
  /\ closedOK = {}
  /\ last = NoCall

\* NewManager, NewSerialServer, NewScanner
Init ==
  /\ InitManager
  /\ defaults = SerialDefaults
  /\ watch = NoWatch
  /\ lineReader = NoLineReader

\* ------------------------------------------------------- Manager.OpenPort
\* a collision rule that ignores what the request asks for
PortIsLocked_ExistingOnly(p, exclusive) ==
  /\ sessions[p] # None
  /\ (heap[sessions[p]].Exclusive \/ ~allowSharedAccess)

\* the collision rule of OpenPort
PortIsLocked(p, exclusive) ==
  /\ sessions[p] # None
  /\ (heap[sessions[p]].Exclusive \/ exclusive \/ ~allowSharedAccess)

\* the error OpenPort returns; openOK and timeoutOK are the driver's answers
\* to serial.Open and port.SetReadTimeout
OpenPortError(p, config, exclusive, openOK, timeoutOK) ==
  IF ~Validate(config) THEN ErrInvalidConfig
  ELSE IF PortIsLocked(p, exclusive) THEN ErrPortLocked
  ELSE IF ~openOK THEN ErrOpenFailed
  ELSE IF config.ReadTimeoutMs > 0 /\ ~timeoutOK THEN ErrSetTimeoutFailed
  ELSE ErrNil

\* an OpenPort that returns the SetReadTimeout error without port.Close()
OpenPortDriverCalls_LeavesHandle(p, config, exclusive, openOK, timeoutOK) ==
  IF ~Validate(config) \/ PortIsLocked(p, exclusive) THEN {}
  ELSE IF ~openOK THEN {"open"}
  ELSE IF config.ReadTimeoutMs > 0 THEN {"open", "set_read_timeout"}
  ELSE {"open"}

\* the driver calls OpenPort issues
OpenPortDriverCalls(p, config, exclusive, openOK, timeoutOK) ==
  IF ~Validate(config) \/ PortIsLocked(p, exclusive) THEN {}
  ELSE IF ~openOK THEN {"open"}
  ELSE IF config.ReadTimeoutMs > 0
       THEN (IF timeoutOK THEN {"open", "set_read_timeout"}
                          ELSE {"open", "set_read_timeout", "close"})
       ELSE {"open"}

\* a Session whose id is not fresh
NewSession_SameID(id, p, config, clientID, exclusive) ==
  [ID |-> 1, PortName |-> p, ClientID |-> clientID, Exclusive |-> exclusive,
   Config |-> config, closed |-> FALSE, portOpen |-> TRUE, mu |-> None,
   readers |-> <<>>, BytesSent |-> 0, BytesReceived |-> 0, Errors |-> 0]

\* the Session OpenPort constructs; id stands for uuid.New().String()
NewSession(id, p, config, clientID, exclusive) ==
  [ID |-> id, PortName |-> p, ClientID |-> clientID, Exclusive |-> exclusive,
   Config |-> config, closed |-> FALSE, portOpen |-> TRUE, mu |-> None,
   readers |-> <<>>, BytesSent |-> 0, BytesReceived |-> 0, Errors |-> 0]

\* SerialServer.OpenPort: the answer for the manager's result
OpenPortResponse(err, session) ==
  IF err = ErrNil
    THEN [success |-> TRUE, message |-> "port opened successfully",
          ret |-> session, code |-> "OK"]
  ELSE IF err = ErrPortLocked
    THEN [success |-> FALSE, message |-> "port is locked by another client",
          ret |-> None, code |-> "OK"]
  ELSE [success |-> FALSE, message |-> "failed to open port",
        ret |-> None, code |-> "Internal"]

DefaultClient(clientID) == IF clientID = "" THEN "default-client" ELSE clientID

\* the answers the driver can give to the calls OpenPort makes
OpenPortDriverAnswers(p, config, exclusive) ==
  IF ~Validate(config) \/ PortIsLocked(p, exclusive) THEN {<<TRUE, TRUE>>}
  ELSE IF config.ReadTimeoutMs > 0 THEN {<<FALSE, TRUE>>, <<TRUE, FALSE>>, <<TRUE, TRUE>>}
  ELSE {<<FALSE, TRUE>>, <<TRUE, TRUE>>}

OpenPort(p, config, clientID, exclusive) ==
  \E answer \in OpenPortDriverAnswers(p, config, exclusive) :
    LET openOK == answer[1]
        timeoutOK == answer[2]
        err == OpenPortError(p, config, exclusive, openOK, timeoutOK)
        id == Len(heap) + 1
        r == OpenPortResponse(err, id)
    IN /\ err = ErrNil => Len(heap) < MaxSessions
       /\ IF err = ErrNil
            THEN /\ heap' = Append(heap,
                      NewSession(id, p, config, DefaultClient(clientID), exclusive))
                 /\ sessions' = [sessions EXCEPT ![p] = id]
                 /\ sessionsByID' = [sessionsByID EXCEPT ![id] = id]
            ELSE UNCHANGED <<heap, sessions, sessionsByID>>
       /\ last' = [NoCall EXCEPT !.op = "OpenPort", !.err = err, !.ret = r.ret,
                     !.success = r.success, !.message = r.message,
                     !.code = r.code,
                     !.driver = OpenPortDriverCalls(p, config, exclusive,
                                                    openOK, timeoutOK)]
       /\ UNCHANGED <<allowSharedAccess, defaults, watch, lineReader,
                 chans, tasks, driverReads, readers,
                      srvReaders, closedOK>>

\* ------------------------------------------------------------ Reader.Stop
Range(f) == {f[i] : i \in DOMAIN f}

\* close(ch) for every channel of the set cs
CloseChans(cs) ==
  [c \in DOMAIN chans |->
     IF c \in cs THEN [chans[c] EXCEPT !.closed = TRUE, !.closes = @ + 1]
     ELSE chans[c]]

\* Reader.Stop on Reader r: the Reader afterwards
ReaderStop(r) ==
  IF ~readers[r].running THEN readers[r]
  ELSE [readers[r] EXCEPT !.running = FALSE, !.stopClosed = TRUE,
                          !.stopCloses = IF readers[r].stopClosed THEN @ ELSE @ + 1,
                          !.subscribers = <<>>]

\* Reader.Stop on Reader r: the channels it closes
ReaderStopCloses(r) ==
  IF ~readers[r].running THEN {} ELSE Range(readers[r].subscribers)

\* ------------------------------------- Manager.ClosePort, closeSessionLocked
\* a closeSessionLocked that closes the subscriber channels and keeps them
\* in session.readers
SessionsClosed_KeepsReaders(S) ==
  [s \in DOMAIN heap |->
     IF s \in S
       THEN [heap[s] EXCEPT !.closed = TRUE, !.portOpen = FALSE]
       ELSE heap[s]]

\* closeSessionLocked applied to every session of the set S: the heap after
SessionsClosed(S) ==
  [s \in DOMAIN heap |->
     IF s \in S
       THEN [heap[s] EXCEPT !.closed = TRUE, !.readers = <<>>,
                            !.portOpen = FALSE]
       ELSE heap[s]]

\* the reader channels closeSessionLocked closes for the sessions of S
SessionReaderChans(S) == UNION {Range(heap[s].readers) : s \in S}

\* delete(m.sessions, session.PortName) for the sessions of S
SessionsDeleted(S) ==
  [p \in Ports |-> IF \E s \in S : heap[s].PortName = p THEN None ELSE sessions[p]]

\* an id-index from which nothing is deleted
SessionsByIDDeleted_Keeps(S) == sessionsByID

\* delete(m.sessionsByID, session.ID) for the sessions of S
SessionsByIDDeleted(S) ==
  [i \in DOMAIN sessionsByID |->
     IF \E s \in S : heap[s].ID = i THEN None ELSE sessionsByID[i]]

\* the error Manager.ClosePort returns; closeOK is the driver's answer to Close
ClosePortError(p, sessionID, closeOK) ==
  IF sessions[p] = None THEN ErrPortNotOpen
  ELSE IF heap[sessions[p]].ID # sessionID THEN ErrInvalidSession
  ELSE IF ~closeOK THEN ErrCloseFailed
  ELSE ErrNil

\* the sessions Manager.ClosePort hands to closeSessionLocked
ClosePortTargets(p, sessionID) ==
  IF sessions[p] # None /\ heap[sessions[p]].ID = sessionID
    THEN {sessions[p]} ELSE {}

\* SerialServer.ClosePort: the answer for the manager's result
ClosePortResponse(err) ==
  IF err = ErrNil
    THEN [success |-> TRUE, message |-> "port closed successfully", code |-> "OK"]
  ELSE IF err = ErrInvalidSession
    THEN [success |-> FALSE, message |-> "invalid session ID", code |-> "OK"]
  ELSE [success |-> FALSE, message |-> "failed to close port", code |-> "Internal"]

\* SerialServer.ClosePort: stop and drop the Reader registered for the port,
\* then Manager.ClosePort
ClosePort(p, sessionID) ==
  \E closeOK \in (IF ClosePortTargets(p, sessionID) = {} THEN {TRUE} ELSE BOOLEAN) :
    LET r == srvReaders[p]
        err == ClosePortError(p, sessionID, closeOK)
        S == ClosePortTargets(p, sessionID)
        resp == ClosePortResponse(err)
        stopped == IF r = None THEN {} ELSE ReaderStopCloses(r)
    IN /\ readers' = IF r = None THEN readers
                     ELSE [readers EXCEPT ![r] = ReaderStop(r)]
       /\ srvReaders' = [srvReaders EXCEPT ![p] = None]
       /\ heap' = SessionsClosed(S)
       /\ chans' = CloseChans(SessionReaderChans(S) \cup stopped)
       /\ sessions' = SessionsDeleted(S)
       /\ sessionsByID' = SessionsByIDDeleted(S)
       /\ closedOK' = IF err = ErrNil THEN closedOK \cup S ELSE closedOK
       /\ last' = [NoCall EXCEPT !.op = "ClosePort", !.err = err,
                     !.success = resp.success, !.message = resp.message,
                     !.code = resp.code,
                     !.driver = IF S = {} THEN {} ELSE {"close"}]
       /\ UNCHANGED <<allowSharedAccess, defaults, watch, lineReader,
                 tasks, driverReads>>

\* Manager.CloseAll: closeSessionLocked for every session of m.sessions
CloseAll ==
  LET S == {sessions[p] : p \in Ports} \ {None}
  IN /\ heap' = SessionsClosed(S)
     /\ chans' = CloseChans(SessionReaderChans(S))
     /\ sessions' = SessionsDeleted(S)
     /\ sessionsByID' = SessionsByIDDeleted(S)
     /\ last' = [NoCall EXCEPT !.op = "CloseAll",
                   !.driver = IF S = {} THEN {} ELSE {"close"}]
     /\ UNCHANGED <<allowSharedAccess, defaults, watch, lineReader,
                 tasks, driverReads, readers,
                    srvReaders, closedOK>>

\* a validation that does not compare the session id
ValidateSession_AnyID(p, sessionID) ==
  IF sessions[p] = None THEN [err |-> ErrPortNotOpen, session |-> None]
  ELSE IF heap[sessions[p]].closed
    THEN [err |-> ErrPortClosed, session |-> None]
  ELSE [err |-> ErrNil, session |-> sessions[p]]

\* Manager.ValidateSession: the error and the session it returns
ValidateSession(p, sessionID) ==
  IF sessions[p] = None THEN [err |-> ErrPortNotOpen, session |-> None]
  ELSE IF heap[sessions[p]].ID # sessionID
    THEN [err |-> ErrInvalidSession, session |-> None]
  ELSE IF heap[sessions[p]].closed
    THEN [err |-> ErrPortClosed, session |-> None]
  ELSE [err |-> ErrNil, session |-> sessions[p]]

\* ------------------------------------------- Manager operations on a session
\* Write, Read, Configure and Flush take the session's mutex
IoOps == {"Write", "Read", "Configure", "Flush"}

\* callers between ValidateSession and the end of their operation on session s
InFlight(s) ==
  Cardinality({t \in Tasks : tasks[t].pc # "idle" /\ tasks[t].sref = s})
  + Cardinality({r \in DOMAIN readers :
                   readers[r].pc \in {"lock", "io"} /\ readers[r].sref = s})

\* what the statistics of session s can still grow to
IoBudget(s) ==
  heap[s].Errors + heap[s].BytesSent + heap[s].BytesReceived
  + MaxChunk * InFlight(s)

\* subscriptions being made
PendingChans ==
  Cardinality({t \in Tasks : tasks[t].pc # "idle" /\ tasks[t].op = "Subscribe"})

Step == [NoCall EXCEPT !.op = "step"]

\* the session-validation prologue of Write, Read, Configure, Flush,
\* SubscribeToReads and UnsubscribeFromReads (and Configure's config.Validate)
Begin(t, op, p, sessionID, config, ch, len) ==
  LET v == ValidateSession(p, sessionID)
      err == IF v.err # ErrNil THEN v.err
             ELSE IF op = "Configure" /\ ~Validate(config) THEN ErrInvalidConfig
             ELSE ErrNil
  IN /\ tasks[t].pc = "idle"
     /\ (err = ErrNil /\ op \in {"Write", "Read"})
          => IoBudget(v.session) + MaxChunk <= MaxIO
     /\ (err = ErrNil /\ op = "Subscribe")
          => Len(chans) + PendingChans < MaxChans
     /\ IF err = ErrNil
          THEN /\ tasks' = [tasks EXCEPT ![t] =
                    [pc |-> "validated", op |-> op, sref |-> v.session,
                     cfg |-> config, ch |-> ch, len |-> len, rd |-> None,
                     req |-> NilConfig, held |-> {}, at |-> 0,
                     pending |-> FALSE, flush |-> FALSE, n |-> 0]]
               /\ last' = Step
          ELSE /\ tasks' = tasks
               /\ last' = [NoCall EXCEPT !.op = op, !.err = err,
                             !.success = FALSE]
     /\ UNCHANGED <<allowSharedAccess, defaults, watch, lineReader,
                 sessions, sessionsByID, heap, chans,
                    driverReads, readers, srvReaders, closedOK>>

\* session.mu.Lock()
Lock(t) ==
  /\ tasks[t].pc = "validated"
  /\ tasks[t].op \in IoOps
  /\ heap[tasks[t].sref].mu = None
  /\ heap' = [heap EXCEPT ![tasks[t].sref].mu = t]
  /\ tasks' = [tasks EXCEPT ![t].pc = "locked"]
  /\ last' = Step
  /\ UNCHANGED <<allowSharedAccess, defaults, watch, lineReader,
                 sessions, sessionsByID, chans,
                 driverReads, readers, srvReaders, closedOK>>

\* try-send v on every channel of the list: a full channel is skipped; a
\* send on a closed channel is noted in the channel's history (sentClosed)
TrySend(list, v) ==
  [c \in DOMAIN chans |->
     IF c \notin Range(list) THEN chans[c]
     ELSE IF chans[c].closed THEN [chans[c] EXCEPT !.sentClosed = TRUE]
     ELSE IF Len(chans[c].buf) < ChanCap
       THEN [chans[c] EXCEPT !.buf = Append(@, v)]
     ELSE chans[c]]

\* what the driver can answer to a call on the handle of session s; a call
\* on a closed handle fails
DriverAnswers(s, sizes) ==
  IF ~heap[s].portOpen THEN {[ok |-> FALSE, n |-> 0]}
  ELSE {[ok |-> FALSE, n |-> 0]} \cup {[ok |-> TRUE, n |-> k] : k \in sizes}

\* what session.port.Write can answer for len bytes on the handle of session
\* s: a failed write may have moved some of the bytes
WriteAnswers(s, len) ==
  DriverAnswers(s, 0..len)
    \cup (IF heap[s].portOpen THEN {[ok |-> FALSE, n |-> k] : k \in 0..len}
          ELSE {})

\* statistics that count the bytes of a failed write
HeapAfterWrite_CountsFailed(s, a) ==
  [heap EXCEPT ![s].mu = None,
               ![s].Errors = IF a.ok THEN @ ELSE @ + 1,
               ![s].BytesSent = @ + a.n]

\* the heap after session.port.Write answered a on session s
HeapAfterWrite(s, a) ==
  [heap EXCEPT ![s].mu = None,
               ![s].Errors = IF a.ok THEN @ ELSE @ + 1,
               ![s].BytesSent = IF a.ok THEN @ + a.n ELSE @]

\* Manager.Write after ValidateSession, from session.port.Write on
WriteBody(t) ==
  LET s == tasks[t].sref
  IN /\ tasks[t].pc = "locked"
     /\ tasks[t].op = "Write"
     /\ \E a \in WriteAnswers(s, tasks[t].len) :
          /\ heap' = HeapAfterWrite(s, a)
          /\ last' = [NoCall EXCEPT !.op = "Write",
                        !.err = IF a.ok THEN ErrNil ELSE ErrWriteFailed,
                        !.ret = a.n, !.success = a.ok, !.driver = {"write"},
                        !.onClosed = ~heap[s].portOpen]
     /\ tasks' = [tasks EXCEPT ![t] = IdleTask]
     /\ UNCHANGED <<allowSharedAccess, defaults, watch, lineReader,
                 sessions, sessionsByID, chans,
                    driverReads, readers, srvReaders, closedOK>>

\* statistics that do not count a failed read
HeapAfterRead_NoErrorCount(s, a) ==
  [heap EXCEPT ![s].mu = None,
               ![s].BytesReceived = IF a.ok THEN @ + a.n ELSE @]

\* the heap after session.port.Read answered a on session s
HeapAfterRead(s, a) ==
  [heap EXCEPT ![s].mu = None,
               ![s].Errors = IF a.ok THEN @ ELSE @ + 1,
               ![s].BytesReceived = IF a.ok THEN @ + a.n ELSE @]

\* the chunk a non-empty read returns: the port's next bytes
NextChunk(s, a) == [id |-> driverReads[heap[s].PortName] + 1, n |-> a.n]

\* Manager.Read's broadcast of the freshly read slice to session.readers
ChansAfterRead(s, a) ==
  IF a.ok /\ a.n > 0 THEN TrySend(heap[s].readers, NextChunk(s, a)) ELSE chans

DriverReadsAfterRead(s, a) ==
  IF a.ok /\ a.n > 0
    THEN [driverReads EXCEPT ![heap[s].PortName] = @ + 1]
    ELSE driverReads

\* Manager.Read after ValidateSession, from session.port.Read on
ReadBody(t) ==
  LET s == tasks[t].sref
  IN /\ tasks[t].pc = "locked"
     /\ tasks[t].op = "Read"
     /\ \E a \in DriverAnswers(s, 0..MaxChunk) :
          /\ heap' = HeapAfterRead(s, a)
          /\ chans' = ChansAfterRead(s, a)
          /\ driverReads' = DriverReadsAfterRead(s, a)
          /\ last' = [NoCall EXCEPT !.op = "Read",
                        !.err = IF a.ok THEN ErrNil ELSE ErrReadFailed,
                        !.ret = a.n, !.success = a.ok, !.driver = {"read"},
                        !.onClosed = ~heap[s].portOpen]
     /\ tasks' = [tasks EXCEPT ![t] = IdleTask]
     /\ UNCHANGED <<allowSharedAccess, defaults, watch, lineReader,
                 sessions, sessionsByID, readers,
                    srvReaders, closedOK>>

\* a Configure that also starts the statistics afresh
HeapAfterConfigure_ResetsStatistics(s, c, err) ==
  [heap EXCEPT ![s].mu = None,
               ![s].Config = IF err = ErrNil THEN c ELSE @,
               ![s].BytesSent = IF err = ErrNil THEN 0 ELSE @,
               ![s].BytesReceived = IF err = ErrNil THEN 0 ELSE @,
               ![s].Errors = IF err = ErrNil THEN 0 ELSE @]

\* the sessions after Manager.Configure on session s: session.Config = config
\* when no driver call failed, and the deferred session.mu.Unlock
HeapAfterConfigure(s, c, err) ==
  [heap EXCEPT ![s].mu = None,
               ![s].Config = IF err = ErrNil THEN c ELSE @]

\* a Configure that does not test the result of SetReadTimeout
ConfigureError_IgnoresTimeout(c, modeOK, timeoutOK) ==
  IF ~modeOK THEN ErrConfigureFailed ELSE ErrNil

\* the error Manager.Configure returns after the validations; modeOK and
\* timeoutOK are the driver's answers to SetMode and SetReadTimeout
ConfigureError(c, modeOK, timeoutOK) ==
  IF ~modeOK THEN ErrConfigureFailed
  ELSE IF c.ReadTimeoutMs > 0 /\ ~timeoutOK THEN ErrSetTimeoutFailed
  ELSE ErrNil

\* the driver steps of Manager.Configure that failed
ConfigureFailed(c, modeOK, timeoutOK) ==
  IF ~modeOK THEN {"set_mode"}
  ELSE IF c.ReadTimeoutMs > 0 /\ ~timeoutOK THEN {"set_read_timeout"}
  ELSE {}

\* the mode the handle has after Configure's session.port.SetMode: the new
\* one when the driver accepted it
ModeApplied(c, modeOK) == IF modeOK THEN ToSerialMode(c) ELSE NoMode

\* Manager.Configure after the validations, from session.port.SetMode on;
\* the driver answers SetMode and, for a positive timeout, SetReadTimeout
ConfigureBody(t) ==
  LET s == tasks[t].sref
      c == tasks[t].cfg
  IN /\ tasks[t].pc = "locked"
     /\ tasks[t].op = "Configure"
     /\ \E mode \in DriverAnswers(s, {0}), timeout \in DriverAnswers(s, {0}) :
          LET err == ConfigureError(c, mode.ok, timeout.ok)
          IN /\ heap' = HeapAfterConfigure(s, c, err)
             /\ last' = [NoCall EXCEPT !.op = "Configure", !.err = err,
                           !.success = (err = ErrNil),
                           !.req = tasks[t].req, !.session = s,
                           !.failed = ConfigureFailed(c, mode.ok, timeout.ok),
                           !.mode = ModeApplied(c, mode.ok),
                           !.driver = IF mode.ok /\ c.ReadTimeoutMs > 0
                                        THEN {"set_mode", "set_read_timeout"}
                                        ELSE {"set_mode"},
                           !.onClosed = ~heap[s].portOpen]
     /\ tasks' = [tasks EXCEPT ![t] = IdleTask]
     /\ UNCHANGED <<allowSharedAccess, defaults, watch, lineReader,
                 sessions, sessionsByID, chans,
                    driverReads, readers, srvReaders, closedOK>>

\* Manager.Flush after ValidateSession: ResetInputBuffer, ResetOutputBuffer
FlushBody(t) ==
  LET s == tasks[t].sref
  IN /\ tasks[t].pc = "locked"
     /\ tasks[t].op = "Flush"
     /\ \E in \in DriverAnswers(s, {0}), out \in DriverAnswers(s, {0}) :
          /\ last' = [NoCall EXCEPT !.op = "Flush",
                        !.err = IF in.ok /\ out.ok THEN ErrNil ELSE ErrFlushFailed,
                        !.success = (in.ok /\ out.ok),
                        !.driver = IF in.ok
                                     THEN {"reset_input_buffer", "reset_output_buffer"}
                                     ELSE {"reset_input_buffer"},
                        !.onClosed = ~heap[s].portOpen]
     /\ heap' = [heap EXCEPT ![s].mu = None]
     /\ tasks' = [tasks EXCEPT ![t] = IdleTask]
     /\ UNCHANGED <<allowSharedAccess, defaults, watch, lineReader,
                 sessions, sessionsByID, chans,
                    driverReads, readers, srvReaders, closedOK>>

\* a channel: its buffer and whether it is closed; history: the session whose
\* SubscribeToReads made it, how many chunks the driver had returned for the
\* port when it was made, what its consumer has received, the sequence
\* numbers of the events a broadcast dropped for it, and how often close(ch)
\* ran on it
NewChan(owner, from) ==
  [buf |-> <<>>, closed |-> FALSE, owner |-> owner, from |-> from,
   recv |-> <<>>, dropped |-> {}, closes |-> 0, sentClosed |-> FALSE]

\* Manager.SubscribeToReads after ValidateSession: make the channel and
\* append it to session.readers
SubscribeBody(t) ==
  LET s == tasks[t].sref
      ch == Len(chans) + 1
  IN /\ tasks[t].pc = "validated"
     /\ tasks[t].op = "Subscribe"
     /\ chans' = Append(chans, NewChan(s, driverReads[heap[s].PortName]))
     /\ heap' = [heap EXCEPT ![s].readers = Append(@, ch)]
     /\ tasks' = [tasks EXCEPT ![t] = IdleTask]
     /\ last' = [NoCall EXCEPT !.op = "Subscribe", !.ret = ch]
     /\ UNCHANGED <<allowSharedAccess, defaults, watch, lineReader,
                 sessions, sessionsByID, driverReads,
                    readers, srvReaders, closedOK>>

\* the list without its first element equal to ch
Without(list, ch) ==
  LET i == CHOOSE k \in DOMAIN list :
             list[k] = ch /\ \A j \in 1..(k - 1) : list[j] # ch
  IN SubSeq(list, 1, i - 1) \o SubSeq(list, i + 1, Len(list))

\* Manager.UnsubscribeFromReads after ValidateSession: close the channel
\* and remove it when session.readers holds it
UnsubscribeBody(t) ==
  LET s == tasks[t].sref
      ch == tasks[t].ch
      found == ch \in Range(heap[s].readers)
  IN /\ tasks[t].pc = "validated"
     /\ tasks[t].op = "Unsubscribe"
     /\ chans' = IF found THEN CloseChans({ch}) ELSE chans
     /\ heap' = IF found THEN [heap EXCEPT ![s].readers = Without(@, ch)]
                ELSE heap
     /\ tasks' = [tasks EXCEPT ![t] = IdleTask]
     /\ last' = [NoCall EXCEPT !.op = "Unsubscribe"]
     /\ UNCHANGED <<allowSharedAccess, defaults, watch, lineReader,
                 sessions, sessionsByID, driverReads,
                    readers, srvReaders, closedOK>>

\* ----------------------------------------------------------------- Reader
\* the callers of Reader.Stop that can overlap: the read loop and the
\* deferred function of StreamRead
StopCallers == {"loop", "defer"}

NoData == [id |-> 0, n |-> 0]

\* NewReader
NewReader(p, sessionID) ==
  [portName |-> p, sessionID |-> sessionID, running |-> FALSE,
   stopClosed |-> FALSE, subscribers |-> <<>>,
   \* the read loop: where it is, its sequence counter, the session its
   \* Manager.Read validated and what that Read returned
   pc |-> "none", sequence |-> 0, sref |-> None, data |-> NoData,
   err |-> ErrNil,
   \* the StreamRead call that made the Reader: where it is, its
   \* subscription and whether its client has cancelled
   call |-> "registered", sub |-> None, ctxDone |-> FALSE,
   \* the calls of Reader.Stop in progress, by caller, and how often
   \* close(r.stopChan) ran on the current stop channel
   stop |-> [w \in StopCallers |-> "none"], stopCloses |-> 0,
   \* the readLoop goroutines started and not returned
   loops |-> 0]

\* SerialServer.StreamRead up to reader.Start: make the Reader and register
\* it for the port
StreamReadBegin(p, sessionID) ==
  /\ Len(readers) < MaxReaders
  /\ Len(chans) + Len(readers) < MaxChans
  /\ readers' = Append(readers, NewReader(p, sessionID))
  /\ srvReaders' = [srvReaders EXCEPT ![p] = Len(readers) + 1]
  /\ last' = Step
  /\ UNCHANGED <<allowSharedAccess, defaults, watch, lineReader,
                 sessions, sessionsByID, heap, chans,
                 tasks, driverReads, closedOK>>

\* Reader.Start: the Reader afterwards
ReaderStart(r) ==
  IF readers[r].running THEN readers[r]
  ELSE IF ValidateSession(readers[r].portName, readers[r].sessionID).err # ErrNil
    THEN readers[r]
  ELSE [readers[r] EXCEPT !.running = TRUE, !.stopClosed = FALSE,
                          !.stopCloses = 0, !.pc = "check",
                          !.loops = @ + 1]

\* Reader.Start: the error it returns
ReaderStartError(r) ==
  IF readers[r].running THEN ErrNil
  ELSE ValidateSession(readers[r].portName, readers[r].sessionID).err

\* SerialServer.StreamRead: reader.Start; on an error the call returns it
StreamStart(r) ==
  /\ readers[r].call = "registered"
  /\ readers' = [readers EXCEPT ![r] =
       [ReaderStart(r) EXCEPT !.call =
          IF ReaderStartError(r) = ErrNil THEN "started" ELSE "failed"]]
  /\ last' = [NoCall EXCEPT !.op = "StreamRead", !.err = ReaderStartError(r),
                !.code = IF ReaderStartError(r) = ErrNil THEN "OK" ELSE "Internal"]
  /\ UNCHANGED <<allowSharedAccess, defaults, watch, lineReader,
                 sessions, sessionsByID, heap, chans,
                 tasks, driverReads, srvReaders, closedOK>>

\* Reader.Subscribe: the Reader afterwards; ch is the channel it made
ReaderSubscribe(r, ch) == [readers[r] EXCEPT !.subscribers = Append(@, ch)]

\* SerialServer.StreamRead: subscription := reader.Subscribe()
StreamSubscribe(r) ==
  LET ch == Len(chans) + 1
  IN /\ readers[r].call = "started"
     /\ chans' = Append(chans, NewChan(None, driverReads[readers[r].portName]))
     /\ readers' = [readers EXCEPT ![r] =
          [ReaderSubscribe(r, ch) EXCEPT !.call = "streaming", !.sub = ch]]
     /\ last' = Step
     /\ UNCHANGED <<allowSharedAccess, defaults, watch, lineReader,
                 sessions, sessionsByID, heap, tasks,
                    driverReads, srvReaders, closedOK>>

\* Reader.Subscribe by a further consumer of the Reader
Subscribe(r) ==
  LET ch == Len(chans) + 1
  IN /\ readers[r].call \in {"started", "streaming"}
     /\ Len(chans) + Cardinality({q \in DOMAIN readers :
                                    readers[q].call \in {"registered", "started"}})
          < MaxChans
     /\ chans' = Append(chans, NewChan(None, driverReads[readers[r].portName]))
     /\ readers' = [readers EXCEPT ![r] = ReaderSubscribe(r, ch)]
     /\ last' = [NoCall EXCEPT !.op = "Reader.Subscribe", !.ret = ch]
     /\ UNCHANGED <<allowSharedAccess, defaults, watch, lineReader,
                 sessions, sessionsByID, heap, tasks,
                    driverReads, srvReaders, closedOK>>

\* Reader.Unsubscribe: close the channel and remove it when the Reader has it
Unsubscribe(r, ch) ==
  /\ ch \in Range(readers[r].subscribers)
  /\ ch # readers[r].sub
  /\ chans' = CloseChans({ch})
  /\ readers' = [readers EXCEPT ![r].subscribers = Without(@, ch)]
  /\ last' = [NoCall EXCEPT !.op = "Reader.Unsubscribe"]
  /\ UNCHANGED <<allowSharedAccess, defaults, watch, lineReader,
                 sessions, sessionsByID, heap, tasks,
                 driverReads, srvReaders, closedOK>>

\* a receive from channel ch by its consumer
Received(ch) ==
  [chans EXCEPT ![ch].buf = Tail(@), ![ch].recv = Append(@, Head(chans[ch].buf))]

\* a consumer of a Reader subscription other than StreamRead takes an event
Consume(ch) ==
  /\ chans[ch].owner = None
  /\ \A r \in DOMAIN readers : readers[r].sub # ch
  /\ chans[ch].buf # <<>>
  /\ chans' = Received(ch)
  /\ last' = Step
  /\ UNCHANGED <<allowSharedAccess, defaults, watch, lineReader,
                 sessions, sessionsByID, heap, tasks,
                 driverReads, readers, srvReaders, closedOK>>

\* SerialServer.StreamRead, the forwarding loop: the select between the
\* client's cancellation and the subscription
StreamRecv(r) ==
  LET ch == readers[r].sub
  IN /\ readers[r].call = "streaming"
     /\ \/ /\ readers[r].ctxDone
           /\ readers' = [readers EXCEPT ![r].call = "returning"]
           /\ chans' = chans
        \/ /\ chans[ch].buf # <<>>
           /\ chans' = Received(ch)
           /\ readers' = [readers EXCEPT ![r].call =
                IF Head(chans[ch].buf).err = ErrPortClosed
                  THEN "returning" ELSE "streaming"]
        \/ /\ chans[ch].buf = <<>>
           /\ chans[ch].closed
           /\ readers' = [readers EXCEPT ![r].call = "returning"]
           /\ chans' = chans
     /\ last' = Step
     /\ UNCHANGED <<allowSharedAccess, defaults, watch, lineReader,
                 sessions, sessionsByID, heap, tasks,
                    driverReads, srvReaders, closedOK>>

\* the client of the StreamRead call cancels
ClientCancel(r) ==
  /\ readers[r].call \in {"registered", "started", "streaming"}
  /\ ~readers[r].ctxDone
  /\ readers' = [readers EXCEPT ![r].ctxDone = TRUE]
  /\ last' = Step
  /\ UNCHANGED <<allowSharedAccess, defaults, watch, lineReader,
                 sessions, sessionsByID, heap, chans,
                 tasks, driverReads, srvReaders, closedOK>>

\* SerialServer.StreamRead, the deferred function: reader.Stop() and
\* delete(s.readers, req.PortName)
StreamReturn(r) ==
  /\ readers[r].call = "returning"
  /\ readers' = [readers EXCEPT ![r] = [ReaderStop(r) EXCEPT !.call = "returned"]]
  /\ chans' = CloseChans(ReaderStopCloses(r))
  /\ srvReaders' = [srvReaders EXCEPT ![readers[r].portName] = None]
  /\ last' = [NoCall EXCEPT !.op = "StreamRead"]
  /\ UNCHANGED <<allowSharedAccess, defaults, watch, lineReader,
                 sessions, sessionsByID, heap, tasks,
                 driverReads, closedOK>>

\* ---------------------------------------------------------- Reader.readLoop
\* the top of the loop: r.running.Load() and the select
LoopCheck(r) ==
  /\ readers[r].pc = "check"
  /\ \/ /\ ~readers[r].running
        /\ readers' = [readers EXCEPT ![r].pc = "done", ![r].loops = @ - 1]
        /\ chans' = chans
     \/ /\ readers[r].running
        /\ readers[r].ctxDone
        /\ readers' = [readers EXCEPT ![r] =
             [ReaderStop(r) EXCEPT !.pc = "done", !.loops = @ - 1]]
        /\ chans' = CloseChans(ReaderStopCloses(r))
     \/ /\ readers[r].running
        /\ readers[r].stopClosed
        /\ readers' = [readers EXCEPT ![r].pc = "done", ![r].loops = @ - 1]
        /\ chans' = chans
     \/ /\ readers[r].running
        /\ ~readers[r].ctxDone
        /\ ~readers[r].stopClosed
        /\ readers[r].sequence < MaxSeq
        /\ readers' = [readers EXCEPT ![r].pc = "read"]
        /\ chans' = chans
  /\ last' = Step
  /\ UNCHANGED <<allowSharedAccess, defaults, watch, lineReader,
                 sessions, sessionsByID, heap, tasks,
                 driverReads, srvReaders, closedOK>>

\* r.manager.Read: its ValidateSession
LoopRead(r) ==
  LET v == ValidateSession(readers[r].portName, readers[r].sessionID)
  IN /\ readers[r].pc = "read"
     /\ readers' = [readers EXCEPT ![r] =
          IF v.err # ErrNil
            THEN [@ EXCEPT !.pc = "event", !.data = NoData, !.err = v.err]
            ELSE [@ EXCEPT !.pc = "lock", !.sref = v.session]]
     /\ last' = Step
     /\ UNCHANGED <<allowSharedAccess, defaults, watch, lineReader,
                 sessions, sessionsByID, heap, chans,
                    tasks, driverReads, srvReaders, closedOK>>

\* r.manager.Read: session.mu.Lock()
LoopLock(r) ==
  /\ readers[r].pc = "lock"
  /\ heap[readers[r].sref].mu = None
  /\ heap' = [heap EXCEPT ![readers[r].sref].mu = -r]
  /\ readers' = [readers EXCEPT ![r].pc = "io"]
  /\ last' = Step
  /\ UNCHANGED <<allowSharedAccess, defaults, watch, lineReader,
                 sessions, sessionsByID, chans, tasks,
                 driverReads, srvReaders, closedOK>>

\* the answers the statistics bound of the session leaves room for
LoopAnswers(s) ==
  {a \in DriverAnswers(s, 0..MaxChunk) :
     \/ ~heap[s].portOpen
     \/ a.ok /\ a.n = 0
     \/ IoBudget(s) + (IF a.ok THEN a.n ELSE 1) <= MaxIO}

\* r.manager.Read from session.port.Read on, and the loop's test of its
\* result: nothing read and no error is skipped
LoopIO(r) ==
  LET s == readers[r].sref
  IN /\ readers[r].pc = "io"
     /\ \E a \in LoopAnswers(s) :
          /\ heap' = HeapAfterRead(s, a)
          /\ chans' = ChansAfterRead(s, a)
          /\ driverReads' = DriverReadsAfterRead(s, a)
          /\ readers' = [readers EXCEPT ![r] =
               IF a.ok /\ a.n = 0 THEN [@ EXCEPT !.pc = "check"]
               ELSE IF a.ok
                 THEN [@ EXCEPT !.pc = "event", !.data = NextChunk(s, a),
                                !.err = ErrNil]
               ELSE [@ EXCEPT !.pc = "event", !.data = NoData,
                              !.err = ErrReadFailed]]
          /\ last' = [NoCall EXCEPT !.op = "Read",
                        !.err = IF a.ok THEN ErrNil ELSE ErrReadFailed,
                        !.ret = a.n, !.success = a.ok, !.driver = {"read"},
                        !.onClosed = ~heap[s].portOpen]
     /\ UNCHANGED <<allowSharedAccess, defaults, watch, lineReader,
                 sessions, sessionsByID, tasks,
                    srvReaders, closedOK>>

\* a counter that is not advanced
NextSequence_Same(n) == n

\* atomic.AddUint32(&sequence, 1).  The counter is a uint32 and wraps at
\* 2^32, a value beyond the integers of the model checker and beyond MaxSeq,
\* the most events a loop of the model produces
NextSequence(n) == n + 1

\* a channel that takes one event less than its capacity
HasRoom_OneLess(c) == Len(chans[c].buf) < ChanCap - 1

\* the send of Reader.broadcast's select succeeds: the buffer of the channel
\* Subscribe made (capacity ChanCap, 100 in the code) is not full
HasRoom(c) == Len(chans[c].buf) < ChanCap

\* a broadcast that ends at the first subscriber whose channel is full
Broadcast_EndsAtFull(r, event) ==
  LET subs == readers[r].subscribers
      Before(c) == {subs[j] : j \in 1..((CHOOSE k \in DOMAIN subs : subs[k] = c) - 1)}
  IN [c \in DOMAIN chans |->
        IF c \notin Range(subs) THEN chans[c]
        ELSE IF /\ Len(chans[c].buf) < ChanCap
                /\ \A b \in Before(c) : Len(chans[b].buf) < ChanCap
          THEN [chans[c] EXCEPT !.buf = Append(@, event)]
        ELSE [chans[c] EXCEPT !.dropped = @ \cup {event.seq}]]

\* Reader.broadcast: try-send the event on every subscriber channel; a full
\* channel is skipped (and the drop noted in its history), a send on a closed
\* channel is noted in sentClosed
Broadcast(r, event) ==
  [c \in DOMAIN chans |->
     IF c \notin Range(readers[r].subscribers) THEN chans[c]
     ELSE IF chans[c].closed THEN [chans[c] EXCEPT !.sentClosed = TRUE]
     ELSE IF HasRoom(c)
       THEN [chans[c] EXCEPT !.buf = Append(@, event)]
     ELSE [chans[c] EXCEPT !.dropped = @ \cup {event.seq}]]

\* a test that takes only ErrPortClosed for fatal
IsFatal_OnlyPortClosed(err) == err = ErrPortClosed

\* the errors that end the read loop
IsFatal(err) == err = ErrPortClosed \/ err = ErrInvalidSession

\* the loop makes the DataEvent, broadcasts it and tests the error
LoopBroadcast(r) ==
  LET event == [seq |-> NextSequence(readers[r].sequence),
                data |-> readers[r].data, err |-> readers[r].err]
  IN /\ readers[r].pc = "event"
     /\ chans' = Broadcast(r, event)
     /\ readers' = [readers EXCEPT ![r].sequence = event.seq,
                      ![r].pc = IF IsFatal(event.err) THEN "stop" ELSE "check",
                      ![r].data = NoData, ![r].err = ErrNil]
     /\ last' = Step
     /\ UNCHANGED <<allowSharedAccess, defaults, watch, lineReader,
                 sessions, sessionsByID, heap, tasks,
                    driverReads, srvReaders, closedOK>>

\* the loop's r.Stop() and return after a fatal error
LoopStop(r) ==
  /\ readers[r].pc = "stop"
  /\ readers' = [readers EXCEPT ![r] =
       [ReaderStop(r) EXCEPT !.pc = "done", !.loops = @ - 1]]
  /\ chans' = CloseChans(ReaderStopCloses(r))
  /\ last' = Step
  /\ UNCHANGED <<allowSharedAccess, defaults, watch, lineReader,
                 sessions, sessionsByID, heap, tasks,
                 driverReads, srvReaders, closedOK>>

\* ------------------------------------------ Reader.Stop, statement by statement
\* The calls of Reader.Stop by the read loop and by the deferred function of
\* StreamRead share no lock before r.subMu.Lock(): each is a sequence of steps
\* that interleave.  A second close of a closed channel panics.

\* readLoop: case <-ctx.Done(): r.Stop() is entered
LoopCancel(r) ==
  /\ readers[r].pc = "check"
  /\ readers[r].running
  /\ readers[r].ctxDone
  /\ readers' = [readers EXCEPT ![r].pc = "stopping", ![r].stop["loop"] = "load"]
  /\ last' = Step
  /\ UNCHANGED <<allowSharedAccess, defaults, watch, lineReader,
                 sessions, sessionsByID, heap, chans,
                 tasks, driverReads, srvReaders, closedOK>>

\* StreamRead returns: the deferred function enters reader.Stop()
DeferStop(r) ==
  /\ readers[r].call = "returning"
  /\ readers' = [readers EXCEPT ![r].call = "stopping", ![r].stop["defer"] = "load"]
  /\ last' = Step
  /\ UNCHANGED <<allowSharedAccess, defaults, watch, lineReader,
                 sessions, sessionsByID, heap, chans,
                 tasks, driverReads, srvReaders, closedOK>>

\* if !r.running.Load() { return }
StopLoad(r, w) ==
  /\ readers[r].stop[w] = "load"
  /\ readers' = [readers EXCEPT ![r].stop[w] =
       IF readers[r].running THEN "store" ELSE "return"]
  /\ last' = Step
  /\ UNCHANGED <<allowSharedAccess, defaults, watch, lineReader,
                 sessions, sessionsByID, heap, chans,
                 tasks, driverReads, srvReaders, closedOK>>

\* r.running.Store(false)
StopStore(r, w) ==
  /\ readers[r].stop[w] = "store"
  /\ readers' = [readers EXCEPT ![r].running = FALSE, ![r].stop[w] = "select"]
  /\ last' = Step
  /\ UNCHANGED <<allowSharedAccess, defaults, watch, lineReader,
                 sessions, sessionsByID, heap, chans,
                 tasks, driverReads, srvReaders, closedOK>>

\* select { case <-r.stopChan: default: ... }
StopSelect(r, w) ==
  /\ readers[r].stop[w] = "select"
  /\ readers' = [readers EXCEPT ![r].stop[w] =
       IF readers[r].stopClosed THEN "subs" ELSE "close"]
  /\ last' = Step
  /\ UNCHANGED <<allowSharedAccess, defaults, watch, lineReader,
                 sessions, sessionsByID, heap, chans,
                 tasks, driverReads, srvReaders, closedOK>>

\* close(r.stopChan): it panics on a channel that is closed already
StopClose(r, w) ==
  /\ readers[r].stop[w] = "close"
  /\ readers' = [readers EXCEPT ![r].stopClosed = TRUE,
                                ![r].stopCloses = @ + 1,
                                ![r].stop[w] = IF readers[r].stopClosed
                                                 THEN "panic" ELSE "subs"]
  /\ last' = Step
  /\ UNCHANGED <<allowSharedAccess, defaults, watch, lineReader,
                 sessions, sessionsByID, heap, chans,
                 tasks, driverReads, srvReaders, closedOK>>

\* under r.subMu: close every subscriber channel, r.subscribers = nil
StopSubs(r, w) ==
  /\ readers[r].stop[w] = "subs"
  /\ chans' = CloseChans(Range(readers[r].subscribers))
  /\ readers' = [readers EXCEPT ![r].subscribers = <<>>, ![r].stop[w] = "return"]
  /\ last' = Step
  /\ UNCHANGED <<allowSharedAccess, defaults, watch, lineReader,
                 sessions, sessionsByID, heap, tasks,
                 driverReads, srvReaders, closedOK>>

\* readLoop: r.Stop() has returned, the loop returns
LoopStopped(r) ==
  /\ readers[r].pc = "stopping"
  /\ readers[r].stop["loop"] = "return"
  /\ readers' = [readers EXCEPT ![r].pc = "done", ![r].loops = @ - 1,
                                ![r].stop["loop"] = "none"]
  /\ last' = Step
  /\ UNCHANGED <<allowSharedAccess, defaults, watch, lineReader,
                 sessions, sessionsByID, heap, chans,
                 tasks, driverReads, srvReaders, closedOK>>

\* the deferred function of StreamRead: reader.Stop() has returned,
\* delete(s.readers, req.PortName)
DeferStopped(r) ==
  /\ readers[r].call = "stopping"
  /\ readers[r].stop["defer"] = "return"
  /\ readers' = [readers EXCEPT ![r].call = "returned", ![r].stop["defer"] = "none"]
  /\ srvReaders' = [srvReaders EXCEPT ![readers[r].portName] = None]
  /\ last' = [NoCall EXCEPT !.op = "StreamRead"]
  /\ UNCHANGED <<allowSharedAccess, defaults, watch, lineReader,
                 sessions, sessionsByID, heap, chans,
                 tasks, driverReads, closedOK>>

\* a close of a closed channel has panicked: the process is gone
Panicked ==
  \/ \E r \in DOMAIN readers : readers[r].stopCloses > 1
  \/ \E c \in ChanRefs : chans[c].closes > 1

\* ------------------------------------------------------ Scanner.WatchPorts
\* Scanner.WatchPorts: makes the stop channel and starts the watch goroutine
WatchPorts(intervalSeconds) ==
  /\ ~watch.made
  /\ watch' = [NoWatch EXCEPT !.made = TRUE,
                              !.interval = IF intervalSeconds <= 0
                                             THEN 5 ELSE intervalSeconds,
                              !.loop = "select"]
  /\ last' = [NoCall EXCEPT !.op = "WatchPorts"]
  /\ UNCHANGED <<allowSharedAccess, defaults, lineReader, sessions, sessionsByID, heap,
                 chans, tasks, driverReads, readers, srvReaders, closedOK>>

\* Scanner.StopWatch: closes the channel whenever it is not nil; the number
\* of close calls the channel has seen after the call
StopWatchCloses(stopChan) ==
  IF stopChan # None THEN watch.stopCloses + 1 ELSE watch.stopCloses

\* close of a closed channel panics
WatchPanicked == watch.stopCloses > 1

\* Scanner.StopWatch(stopChan); stopChan is nil or the channel WatchPorts
\* returned
StopWatch(stopChan) ==
  /\ ~WatchPanicked
  /\ stopChan # None => watch.made
  /\ watch' = [watch EXCEPT !.stopCloses = StopWatchCloses(stopChan)]
  /\ last' = [NoCall EXCEPT !.op = "StopWatch",
                            !.err = IF StopWatchCloses(stopChan) > 1
                                      THEN "panic: close of closed channel"
                                      ELSE ErrNil]
  /\ UNCHANGED <<allowSharedAccess, defaults, lineReader, sessions, sessionsByID, heap,
                 chans, tasks, driverReads, readers, srvReaders, closedOK>>

\* the watch goroutine's select takes `case <-stop`: possible once the stop
\* channel is closed
WatchStopCase ==
  /\ ~WatchPanicked
  /\ watch.loop = "select"
  /\ watch.stopCloses > 0
  /\ watch' = [watch EXCEPT !.loop = "done"]
  /\ last' = [NoCall EXCEPT !.op = "watch.return"]
  /\ UNCHANGED <<allowSharedAccess, defaults, lineReader, sessions, sessionsByID, heap,
                 chans, tasks, driverReads, readers, srvReaders, closedOK>>

\* the watch goroutine's select takes `case <-ticker.C`: possible whenever a
\* tick is pending, the stop channel closed or not (select chooses among
\* its ready cases). Scan answers an error or the set of ports present.
WatchTickCase(scanOK, ports) ==
  /\ ~WatchPanicked
  /\ watch.loop = "select"
  /\ LET added == ports \ watch.lastPorts
         removed == watch.lastPorts \ ports
         fires == scanOK /\ (added # {} \/ removed # {})
     IN /\ watch' =
             IF ~scanOK THEN watch
             ELSE [watch EXCEPT
                     !.lastPorts = ports,
                     !.callback = IF fires
                                    THEN [added |-> added, removed |-> removed,
                                          current |-> ports]
                                    ELSE @,
                     !.late = @ \/ (fires /\ watch.stopCloses > 0)]
        /\ last' = [NoCall EXCEPT !.op = IF fires THEN "watch.callback"
                                                  ELSE "watch.tick",
                                  !.err = IF scanOK THEN ErrNil
                                                    ELSE "scan failed"]
  /\ UNCHANGED <<allowSharedAccess, defaults, lineReader, sessions, sessionsByID, heap,
                 chans, tasks, driverReads, readers, srvReaders, closedOK>>

\* ------------------------------------------------------------- LineReader
\* the bytes of the stream: the line feed and a letter
LineFeed == 10
Bytes == {LineFeed, 65}

RECURSIVE ByteSeqs(_)
\* the byte strings of a length up to n
ByteSeqs(n) ==
  IF n = 0 THEN {<<>>}
  ELSE LET shorter == ByteSeqs(n - 1)
       IN shorter \cup {Append(b, x) : b \in shorter, x \in Bytes}

\* the DataEvents a subscription channel carries: data, or an error
DataEvents ==
  {[Data |-> d, Error |-> ErrNil] : d \in ByteSeqs(MaxData) \ {<<>>}}
    \cup {[Data |-> <<>>, Error |-> ErrReadFailed]}

RECURSIVE EventSeqs(_)
\* the contents of a channel of up to n events, closed after the last
EventSeqs(n) ==
  IF n = 0 THEN {<<>>}
  ELSE LET shorter == EventSeqs(n - 1)
       IN shorter \cup {Append(es, e) : es \in shorter, e \in DataEvents}

RECURSIVE DataOf(_)
\* the bytes a sequence of events carries, in order
DataOf(events) ==
  IF events = <<>> THEN <<>>
  ELSE Head(events).Data \o DataOf(Tail(events))

\* NewLineReader(reader, delimiter, maxLineSize), and the channel it will
\* read: the events, then the close
NewLineReader(delimiter, maxLineSize, events) ==
  [made |-> TRUE, delimiter |-> delimiter,
   maxLine |-> IF maxLineSize <= 0 THEN 4096 ELSE maxLineSize,
   buffer |-> <<>>, events |-> events, input |-> DataOf(events),
   lines |-> <<>>, err |-> ErrNil]

\* the first index of the delimiter in the buffer, 0 when there is none
DelimiterIndex(buffer, delimiter) ==
  IF \E i \in 1..Len(buffer) : buffer[i] = delimiter
    THEN CHOOSE i \in 1..Len(buffer) :
           /\ buffer[i] = delimiter
           /\ \A j \in 1..(i - 1) : buffer[j] # delimiter
    ELSE 0

\* ReadLine's overflow test, made after every append
Overflows(buffer, maxLine) == Len(buffer) > maxLine

RECURSIVE ReadLineFrom(_, _, _, _)
\* LineReader.ReadLine: the line and error it returns, and the buffer and
\* the channel contents it leaves
ReadLineFrom(buffer, events, delimiter, maxLine) ==
  LET i == DelimiterIndex(buffer, delimiter)
  IN IF i # 0
       THEN [line |-> SubSeq(buffer, 1, i - 1), err |-> ErrNil,
             buffer |-> SubSeq(buffer, i + 1, Len(buffer)),
             events |-> events]
     ELSE IF events = <<>>
       THEN IF Len(buffer) > 0
              THEN [line |-> buffer, err |-> ErrNil, buffer |-> <<>>,
                    events |-> events]
              ELSE [line |-> <<>>, err |-> ErrPortClosed, buffer |-> buffer,
                    events |-> events]
     ELSE IF Head(events).Error # ErrNil
       THEN [line |-> <<>>, err |-> Head(events).Error, buffer |-> buffer,
             events |-> Tail(events)]
     ELSE LET appended == buffer \o Head(events).Data
          IN IF Overflows(appended, maxLine)
               THEN [line |-> appended, err |-> ErrNil, buffer |-> <<>>,
                     events |-> Tail(events)]
               ELSE ReadLineFrom(appended, Tail(events), delimiter, maxLine)

\* one call of LineReader.ReadLine(dataChan)
ReadLine ==
  /\ lineReader.made
  /\ LET r == ReadLineFrom(lineReader.buffer, lineReader.events,
                           lineReader.delimiter, lineReader.maxLine)
     IN /\ lineReader' =
             [lineReader EXCEPT
                !.buffer = r.buffer,
                !.events = r.events,
                !.lines = IF r.err = ErrNil THEN Append(@, r.line) ELSE @,
                !.err = r.err]
        /\ last' = [NoCall EXCEPT !.op = "ReadLine", !.err = r.err]
  /\ UNCHANGED <<allowSharedAccess, defaults, watch, sessions, sessionsByID, heap,
                 chans, tasks, driverReads, readers, srvReaders, closedOK>>

\* --------------------------------------------------- SerialServer.Write
\* a facade whose Write answers the flush error
ServerWriteResponse_FlushFatal(n, flushErr) ==
  IF flushErr # ErrNil
    THEN [success |-> FALSE, ret |-> 0, message |-> flushErr]
    ELSE [success |-> TRUE, ret |-> n, message |-> "data written successfully"]

\* SerialServer.Write: the answer when manager.Write returned n and no
\* error; flushErr is what manager.Flush returned (ErrNil without a flush)
ServerWriteResponse(n, flushErr) ==
  [success |-> TRUE, ret |-> n, message |-> "data written successfully"]

\* SerialServer.Write up to the end of Manager.Write's ValidateSession
ServerWrite(t, p, sessionID, len, flush) ==
  LET v == ValidateSession(p, sessionID)
  IN /\ tasks[t].pc = "idle"
     /\ v.err = ErrNil => IoBudget(v.session) + MaxChunk <= MaxIO
     /\ IF v.err = ErrNil
          THEN /\ tasks' = [tasks EXCEPT ![t] =
                    [IdleTask EXCEPT !.pc = "validated", !.op = "Write",
                                     !.sref = v.session, !.len = len,
                                     !.flush = flush]]
               /\ last' = Step
          ELSE /\ tasks' = tasks
               /\ last' = [NoCall EXCEPT !.op = "SerialServer.Write",
                             !.err = v.err, !.success = FALSE,
                             !.message = v.err]
     /\ UNCHANGED <<allowSharedAccess, defaults, watch, lineReader,
                 sessions, sessionsByID, heap, chans,
                    driverReads, readers, srvReaders, closedOK>>

\* Manager.Write from session.port.Write on, and the facade's test of its
\* error: the failure answer, the answer of a Write without flush, or on to
\* manager.Flush
ServerWriteBody(t) ==
  LET s == tasks[t].sref
  IN /\ tasks[t].pc = "locked"
     /\ tasks[t].op = "Write"
     /\ \E a \in WriteAnswers(s, tasks[t].len) :
          LET r == ServerWriteResponse(a.n, ErrNil)
          IN /\ heap' = HeapAfterWrite(s, a)
             /\ IF ~a.ok
                  THEN /\ tasks' = [tasks EXCEPT ![t] = IdleTask]
                       /\ last' = [NoCall EXCEPT !.op = "SerialServer.Write",
                                     !.err = ErrWriteFailed, !.success = FALSE,
                                     !.message = ErrWriteFailed,
                                     !.driver = {"write"}, !.session = s]
                  ELSE IF tasks[t].flush
                  THEN /\ tasks' = [tasks EXCEPT ![t].pc = "flush",
                                                  ![t].n = a.n]
                       /\ last' = Step
                  ELSE /\ tasks' = [tasks EXCEPT ![t] = IdleTask]
                       /\ last' = [NoCall EXCEPT !.op = "SerialServer.Write",
                                     !.success = r.success, !.ret = r.ret,
                                     !.message = r.message,
                                     !.driver = {"write"}, !.session = s]
     /\ UNCHANGED <<allowSharedAccess, defaults, watch, lineReader,
                 sessions, sessionsByID, chans,
                    driverReads, readers, srvReaders, closedOK>>

\* req.Flush: Manager.Flush's ValidateSession; its error is dropped
ServerFlush(t) ==
  LET s == tasks[t].sref
      v == ValidateSession(heap[s].PortName, heap[s].ID)
      r == ServerWriteResponse(tasks[t].n, v.err)
  IN /\ tasks[t].pc = "flush"
     /\ IF v.err = ErrNil
          THEN /\ tasks' = [tasks EXCEPT ![t].pc = "validated",
                                          ![t].op = "Flush",
                                          ![t].sref = v.session]
               /\ last' = Step
          ELSE /\ tasks' = [tasks EXCEPT ![t] = IdleTask]
               /\ last' = [NoCall EXCEPT !.op = "SerialServer.Write",
                             !.success = r.success, !.ret = r.ret,
                             !.message = r.message, !.driver = {"write"},
                             !.session = s, !.failed = {"flush"}]
     /\ UNCHANGED <<allowSharedAccess, defaults, watch, lineReader,
                 sessions, sessionsByID, heap, chans,
                    driverReads, readers, srvReaders, closedOK>>

\* Manager.Flush from ResetInputBuffer on, and the facade's answer
ServerFlushBody(t) ==
  LET s == tasks[t].sref
  IN /\ tasks[t].pc = "locked"
     /\ tasks[t].op = "Flush"
     /\ tasks[t].flush
     /\ \E in \in DriverAnswers(s, {0}), out \in DriverAnswers(s, {0}) :
          LET flushErr == IF in.ok /\ out.ok THEN ErrNil ELSE ErrFlushFailed
              r == ServerWriteResponse(tasks[t].n, flushErr)
          IN last' = [NoCall EXCEPT !.op = "SerialServer.Write",
                        !.success = r.success, !.ret = r.ret,
                        !.message = r.message, !.session = s,
                        !.driver = IF in.ok
                                     THEN {"write", "reset_input_buffer",
                                           "reset_output_buffer"}
                                     ELSE {"write", "reset_input_buffer"},
                        !.failed = IF flushErr = ErrNil THEN {} ELSE {"flush"}]
     /\ heap' = [heap EXCEPT ![s].mu = None]
     /\ tasks' = [tasks EXCEPT ![t] = IdleTask]
     /\ UNCHANGED <<allowSharedAccess, defaults, watch, lineReader,
                 sessions, sessionsByID, chans,
                    driverReads, readers, srvReaders, closedOK>>

\* ------------------------------------------- SerialServer.ConfigurePort
\* SerialServer.ConfigurePort up to the end of Manager.Configure's checks:
\* convertToSerialConfig, ValidateSession, config.Validate
ConfigurePort(t, p, sessionID, req) ==
  LET cfg == convertToSerialConfig(req)
      v == ValidateSession(p, sessionID)
      err == IF v.err # ErrNil THEN v.err
             ELSE IF ~Validate(cfg) THEN ErrInvalidConfig
             ELSE ErrNil
  IN /\ tasks[t].pc = "idle"
     /\ IF err = ErrNil
          THEN /\ tasks' = [tasks EXCEPT ![t] =
                    [IdleTask EXCEPT !.pc = "validated", !.op = "Configure",
                                     !.sref = v.session, !.cfg = cfg,
                                     !.req = req]]
               /\ last' = Step
          ELSE /\ tasks' = tasks
               /\ last' = [NoCall EXCEPT !.op = "Configure", !.err = err,
                             !.success = FALSE, !.message = err]
     /\ UNCHANGED <<allowSharedAccess, defaults, watch, lineReader,
                 sessions, sessionsByID, heap, chans,
                    driverReads, readers, srvReaders, closedOK>>

\* Manager.GetStatus
GetStatus(p) ==
  IF sessions[p] = None THEN [err |-> ErrPortNotOpen, session |-> None]
  ELSE [err |-> ErrNil, session |-> sessions[p]]

\* SerialServer.GetPortConfig
GetPortConfig(p) ==
  LET st == GetStatus(p)
  IN IF st.err # ErrNil THEN [code |-> "NotFound", config |-> NilConfig]
     ELSE [code |-> "OK",
           config |-> convertFromSerialConfig(heap[st.session].Config)]

\* SerialServer.GetPortStatus
GetPortStatus(p) ==
  LET st == GetStatus(p)
      session == heap[st.session]
  IN IF st.err = ErrPortNotOpen
       THEN [PortName |-> p, IsOpen |-> FALSE, IsLocked |-> FALSE,
             LockedBy |-> "", SessionId |-> None, CurrentConfig |-> NilConfig,
             BytesSent |-> 0, BytesReceived |-> 0, Errors |-> 0]
       ELSE [PortName |-> session.PortName, IsOpen |-> TRUE,
             IsLocked |-> session.Exclusive, LockedBy |-> session.ClientID,
             SessionId |-> session.ID,
             CurrentConfig |-> convertFromSerialConfig(session.Config),
             BytesSent |-> session.BytesSent,
             BytesReceived |-> session.BytesReceived,
             Errors |-> session.Errors]

\* ----------------------------------------- Reader.Start, statement by statement
\* Reader.Start takes no lock: calls by several tasks interleave.

\* NewReader by a client of the package
MakeReader(p, sessionID) ==
  /\ Len(readers) < MaxReaders
  /\ readers' = Append(readers, [NewReader(p, sessionID) EXCEPT !.call = "none"])
  /\ last' = Step
  /\ UNCHANGED <<allowSharedAccess, defaults, watch, lineReader,
                 sessions, sessionsByID, heap, chans,
                 tasks, driverReads, srvReaders, closedOK>>

\* task t calls r.Start
StartCall(t, r) ==
  /\ tasks[t].pc = "idle"
  /\ tasks' = [tasks EXCEPT ![t] =
       [IdleTask EXCEPT !.pc = "start_load", !.op = "Start", !.rd = r]]
  /\ last' = Step
  /\ UNCHANGED <<allowSharedAccess, defaults, watch, lineReader,
                 sessions, sessionsByID, heap, chans,
                 driverReads, readers, srvReaders, closedOK>>

\* if r.running.Load() { return nil }
StartLoad(t) ==
  /\ tasks[t].pc = "start_load"
  /\ IF readers[tasks[t].rd].running
       THEN /\ tasks' = [tasks EXCEPT ![t] = IdleTask]
            /\ last' = [NoCall EXCEPT !.op = "Start"]
       ELSE /\ tasks' = [tasks EXCEPT ![t].pc = "start_validate"]
            /\ last' = Step
  /\ UNCHANGED <<allowSharedAccess, defaults, watch, lineReader,
                 sessions, sessionsByID, heap, chans,
                 driverReads, readers, srvReaders, closedOK>>

\* r.manager.ValidateSession; an error is returned
StartValidate(t) ==
  LET r == tasks[t].rd
      v == ValidateSession(readers[r].portName, readers[r].sessionID)
  IN /\ tasks[t].pc = "start_validate"
     /\ IF v.err # ErrNil
          THEN /\ tasks' = [tasks EXCEPT ![t] = IdleTask]
               /\ last' = [NoCall EXCEPT !.op = "Start", !.err = v.err,
                             !.success = FALSE]
          ELSE /\ tasks' = [tasks EXCEPT ![t].pc = "start_store"]
               /\ last' = Step
     /\ UNCHANGED <<allowSharedAccess, defaults, watch, lineReader,
                 sessions, sessionsByID, heap, chans,
                    driverReads, readers, srvReaders, closedOK>>

\* r.running.Store(true)
StartStore(t) ==
  /\ tasks[t].pc = "start_store"
  /\ readers' = [readers EXCEPT ![tasks[t].rd].running = TRUE]
  /\ tasks' = [tasks EXCEPT ![t].pc = "start_make"]
  /\ last' = Step
  /\ UNCHANGED <<allowSharedAccess, defaults, watch, lineReader,
                 sessions, sessionsByID, heap, chans,
                 driverReads, srvReaders, closedOK>>

\* r.stopChan = make(chan struct{})
StartMake(t) ==
  /\ tasks[t].pc = "start_make"
  /\ readers' = [readers EXCEPT ![tasks[t].rd].stopClosed = FALSE,
                                ![tasks[t].rd].stopCloses = 0]
  /\ tasks' = [tasks EXCEPT ![t].pc = "start_go"]
  /\ last' = Step
  /\ UNCHANGED <<allowSharedAccess, defaults, watch, lineReader,
                 sessions, sessionsByID, heap, chans,
                 driverReads, srvReaders, closedOK>>

\* go r.readLoop(ctx); return nil
StartGo(t) ==
  /\ tasks[t].pc = "start_go"
  /\ readers' = [readers EXCEPT ![tasks[t].rd].loops = @ + 1,
                                ![tasks[t].rd].pc = "check"]
  /\ tasks' = [tasks EXCEPT ![t] = IdleTask]
  /\ last' = [NoCall EXCEPT !.op = "Start"]
  /\ UNCHANGED <<allowSharedAccess, defaults, watch, lineReader,
                 sessions, sessionsByID, heap, chans,
                 driverReads, srvReaders, closedOK>>

\* ------------------------------------------------------------- the guards
\* The mutexes of the program: Manager.mu, Session.mu and Session.readersMu
\* of session s, Reader.subMu of Reader r, SerialServer.readersMu
ManagerMu == <<"m.mu", 0>>
SessionMu(s) == <<"session.mu", s>>
SessionReadersMu(s) == <<"session.readersMu", s>>
ReaderSubMu(r) == <<"r.subMu", r>>
ServerReadersMu == <<"s.readersMu", 0>>

\* what a driver call works on: the port handle of session s, and the
\* driver's open function
SessionPort(s) == <<"session.port", s>>
SerialOpen == <<"serial.Open", 0>>

\* Manager.ValidateSession
ValidateSessionLocks == <<
  <<"RLock", ManagerMu>>, <<"RUnlock", ManagerMu>> >>

\* a closeSessionLocked that takes the per-session guard around its work
CloseSessionLocks_TakesSessionMu(s) == <<
  <<"Lock", SessionMu(s)>>,
  <<"Lock", SessionReadersMu(s)>>, <<"Unlock", SessionReadersMu(s)>>,
  <<"Driver", SessionPort(s)>>, <<"Unlock", SessionMu(s)>> >>

\* closeSessionLocked on session s: the subscriber channels are closed under
\* the subscriber guard, then session.port.Close()
CloseSessionLocks(s) == <<
  <<"Lock", SessionReadersMu(s)>>, <<"Unlock", SessionReadersMu(s)>>,
  <<"Driver", SessionPort(s)>> >>

\* driver calls on the handle made without the per-session guard
SessionIoLocks_NoSessionMu(s, inner) ==
  << <<"Driver", SessionPort(s)>> >> \o inner

\* Write, Read, Configure, Flush after ValidateSession: the driver call on
\* the handle under the per-session guard, and what follows it (inner)
\* before the deferred Unlock
SessionIoLocks(s, inner) ==
  << <<"Lock", SessionMu(s)>>, <<"Driver", SessionPort(s)>> >> \o inner
    \o << <<"Unlock", SessionMu(s)>> >>

\* Reader.Stop, Reader.Subscribe, Reader.Unsubscribe on Reader r
ReaderSubLocks(r) == <<
  <<"Lock", ReaderSubMu(r)>>, <<"Unlock", ReaderSubMu(r)>> >>

\* Manager.CloseAll: closeSessionLocked on each of the sessions 1..n
RECURSIVE CloseAllLocks(_)
CloseAllLocks(n) ==
  IF n = 0 THEN << >> ELSE CloseAllLocks(n - 1) \o CloseSessionLocks(n)

\* Manager.ClosePort on session s
ManagerClosePortLocks(s) ==
  << <<"Lock", ManagerMu>> >> \o CloseSessionLocks(s)
    \o << <<"Unlock", ManagerMu>> >>

\* Manager.UnsubscribeFromReads with the guards taken the other way round:
\* the subscriber guard first, the per-session guard inside it
LockProgram_UnsubscribeTakesSessionMu(op, s, r) ==
  IF op = "UnsubscribeFromReads"
    THEN ValidateSessionLocks \o
         << <<"Lock", SessionReadersMu(s)>>, <<"Lock", SessionMu(s)>>,
            <<"Unlock", SessionMu(s)>>, <<"Unlock", SessionReadersMu(s)>> >>
  ELSE IF op = "Read"
    THEN ValidateSessionLocks \o
         SessionIoLocks(s, << <<"RLock", SessionReadersMu(s)>>,
                              <<"RUnlock", SessionReadersMu(s)>> >>)
  ELSE ValidateSessionLocks

\* the Lock, RLock, Unlock and RUnlock statements and the driver calls of
\* operation op on session s and Reader r, in the order the code executes
\* them on the path that returns no error early (an early return ends the
\* program at an Unlock)
LockProgram(op, s, r) ==
  CASE op = "OpenPort" ->
         << <<"Lock", ManagerMu>>, <<"Driver", SerialOpen>>,
            <<"Unlock", ManagerMu>> >>
    [] op = "ClosePort" -> ManagerClosePortLocks(s)
    [] op = "CloseAll" ->
         << <<"Lock", ManagerMu>> >> \o CloseAllLocks(MaxSessions)
           \o << <<"Unlock", ManagerMu>> >>
    [] op \in {"ValidateSession", "Reader.Start"} -> ValidateSessionLocks
    [] op \in {"Write", "Configure", "Flush"} ->
         ValidateSessionLocks \o SessionIoLocks(s, << >>)
    [] op = "Read" ->
         ValidateSessionLocks \o
         SessionIoLocks(s, << <<"RLock", SessionReadersMu(s)>>,
                              <<"RUnlock", SessionReadersMu(s)>> >>)
    [] op \in {"SubscribeToReads", "UnsubscribeFromReads"} ->
         ValidateSessionLocks \o
         << <<"Lock", SessionReadersMu(s)>>, <<"Unlock", SessionReadersMu(s)>> >>
    [] op \in {"Reader.Stop", "Reader.Subscribe", "Reader.Unsubscribe"} ->
         ReaderSubLocks(r)
    [] op = "Reader.broadcast" ->
         << <<"RLock", ReaderSubMu(r)>>, <<"RUnlock", ReaderSubMu(r)>> >>
    [] op = "SerialServer.ClosePort" ->
         << <<"Lock", ServerReadersMu>> >> \o ReaderSubLocks(r)
           \o << <<"Unlock", ServerReadersMu>> >> \o ManagerClosePortLocks(s)

LockOps ==
  {"OpenPort", "ClosePort", "CloseAll", "ValidateSession", "Reader.Start",
   "Write", "Configure", "Flush", "Read", "SubscribeToReads",
   "UnsubscribeFromReads", "Reader.Stop", "Reader.Subscribe",
   "Reader.Unsubscribe", "Reader.broadcast", "SerialServer.ClosePort"}

\* the statement task t is at, <<"return", ...>> past the end of the program
Statement(t) ==
  LET prog == LockProgram(tasks[t].op, tasks[t].sref, tasks[t].rd)
  IN IF tasks[t].at \in DOMAIN prog THEN prog[tasks[t].at]
     ELSE <<"return", ManagerMu>>

InLocks(t) == tasks[t].pc = "locks"

\* another task holds guard g (for writing, when w)
HeldByOther(t, g, w) ==
  \E u \in Tasks \ {t} :
    \E h \in tasks[u].held : h[1] = g /\ (w => h[2] = "W")

\* another task is inside Lock() on guard g: sync.RWMutex then makes new
\* readers wait
WriterWaits(t, g) ==
  \E u \in Tasks \ {t} :
    InLocks(u) /\ tasks[u].pending /\ Statement(u) = <<"Lock", g>>

\* the operations that work on a session, and those that work on a Reader
SessionOps ==
  {"ClosePort", "Write", "Configure", "Flush", "Read", "SubscribeToReads",
   "UnsubscribeFromReads", "SerialServer.ClosePort"}

ReaderOps ==
  {"Reader.Stop", "Reader.Subscribe", "Reader.Unsubscribe",
   "Reader.broadcast", "SerialServer.ClosePort"}

\* task t begins operation op on session s and Reader r (None when the
\* operation works on none)
LockCall(t, op, s, r) ==
  /\ tasks[t].pc = "idle"
  /\ (s = None) = (op \notin SessionOps)
  /\ (r = None) = (op \notin ReaderOps)
  /\ tasks' = [tasks EXCEPT ![t] =
       [IdleTask EXCEPT !.pc = "locks", !.op = op, !.sref = s, !.rd = r,
                        !.at = 1]]
  /\ last' = Step
  /\ UNCHANGED <<allowSharedAccess, defaults, watch, lineReader,
                 sessions, sessionsByID, heap, chans,
                 driverReads, readers, srvReaders, closedOK>>

\* task t enters Lock() on the guard of its statement
LockWant(t) ==
  /\ InLocks(t)
  /\ Statement(t)[1] = "Lock"
  /\ ~tasks[t].pending
  /\ tasks' = [tasks EXCEPT ![t].pending = TRUE]
  /\ last' = Step
  /\ UNCHANGED <<allowSharedAccess, defaults, watch, lineReader,
                 sessions, sessionsByID, heap, chans,
                 driverReads, readers, srvReaders, closedOK>>

\* Lock() returns: nobody else holds the guard
LockAcquire(t) ==
  /\ InLocks(t)
  /\ Statement(t)[1] = "Lock"
  /\ tasks[t].pending
  /\ ~HeldByOther(t, Statement(t)[2], FALSE)
  /\ <<Statement(t)[2], "W">> \notin tasks[t].held
  /\ <<Statement(t)[2], "R">> \notin tasks[t].held
  /\ tasks' = [tasks EXCEPT ![t].pending = FALSE, ![t].at = @ + 1,
                            ![t].held = @ \cup {<<Statement(t)[2], "W">>}]
  /\ last' = Step
  /\ UNCHANGED <<allowSharedAccess, defaults, watch, lineReader,
                 sessions, sessionsByID, heap, chans,
                 driverReads, readers, srvReaders, closedOK>>

\* RLock() returns: nobody else holds the guard for writing or waits to
RLockAcquire(t) ==
  /\ InLocks(t)
  /\ Statement(t)[1] = "RLock"
  /\ ~HeldByOther(t, Statement(t)[2], TRUE)
  /\ ~WriterWaits(t, Statement(t)[2])
  /\ <<Statement(t)[2], "W">> \notin tasks[t].held
  /\ tasks' = [tasks EXCEPT ![t].at = @ + 1,
                            ![t].held = @ \cup {<<Statement(t)[2], "R">>}]
  /\ last' = Step
  /\ UNCHANGED <<allowSharedAccess, defaults, watch, lineReader,
                 sessions, sessionsByID, heap, chans,
                 driverReads, readers, srvReaders, closedOK>>

\* Unlock() and RUnlock()
LockRelease(t) ==
  /\ InLocks(t)
  /\ Statement(t)[1] \in {"Unlock", "RUnlock"}
  /\ tasks' = [tasks EXCEPT ![t].at = @ + 1,
       ![t].held = @ \ {<<Statement(t)[2],
                          IF Statement(t)[1] = "Unlock" THEN "W" ELSE "R">>}]
  /\ last' = Step
  /\ UNCHANGED <<allowSharedAccess, defaults, watch, lineReader,
                 sessions, sessionsByID, heap, chans,
                 driverReads, readers, srvReaders, closedOK>>

\* the driver call of the statement is made and returns
DriverCall(t) ==
  /\ InLocks(t)
  /\ Statement(t)[1] = "Driver"
  /\ tasks' = [tasks EXCEPT ![t].at = @ + 1]
  /\ last' = Step
  /\ UNCHANGED <<allowSharedAccess, defaults, watch, lineReader,
                 sessions, sessionsByID, heap, chans,
                 driverReads, readers, srvReaders, closedOK>>

\* the operation returns
LockReturn(t) ==
  /\ InLocks(t)
  /\ Statement(t)[1] = "return"
  /\ tasks' = [tasks EXCEPT ![t] = IdleTask]
  /\ last' = Step
  /\ UNCHANGED <<allowSharedAccess, defaults, watch, lineReader,
                 sessions, sessionsByID, heap, chans,
                 driverReads, readers, srvReaders, closedOK>>

\* a step of task t inside its operation
LockStep(t) ==
  LockWant(t) \/ LockAcquire(t) \/ RLockAcquire(t) \/ LockRelease(t)
    \/ DriverCall(t) \/ LockReturn(t)

\* --------------------------------------------------------- specifications
\* an OpenPort request: the client and the configuration it asks for
OpenRequests ==
  {[client |-> "", config |-> DefaultConfig],
   [client |-> "b", config |-> FastConfig],
   [client |-> "b", config |-> BadConfig]}

\* COM3 is opened by either client with every configuration, COM4 by the
\* default client
Next ==
  \/ \E q \in OpenRequests, e \in BOOLEAN :
       OpenPort("COM3", q.config, q.client, e)
  \/ \E e \in BOOLEAN : OpenPort("COM4", DefaultConfig, "", e)
  \/ \E p \in Ports, i \in 1..MaxSessions : ClosePort(p, i)
  \/ CloseAll

Spec == Init /\ [][Next]_vars

\* Write, Read, Configure and Flush by concurrent clients of port COM3,
\* interleaved with opening and closing it
IoCall(t) ==
  \/ \E op \in {"Read", "Flush"}, i \in 1..MaxSessions :
       Begin(t, op, "COM3", i, DefaultConfig, None, 0)
  \/ \E i \in 1..MaxSessions :
       Begin(t, "Write", "COM3", i, DefaultConfig, None, MaxChunk)
  \/ \E i \in 1..MaxSessions, c \in {FastConfig, BadConfig} :
       Begin(t, "Configure", "COM3", i, c, None, 0)

NextIO ==
  \/ OpenPort("COM3", DefaultConfig, "", TRUE)
  \/ \E i \in 1..MaxSessions : ClosePort("COM3", i)
  \/ CloseAll
  \/ \E t \in IoTasks : IoCall(t)
  \/ \E t \in IoTasks : Lock(t)
  \/ \E t \in IoTasks : WriteBody(t)
  \/ \E t \in IoTasks : ReadBody(t)
  \/ \E t \in IoTasks : ConfigureBody(t)
  \/ \E t \in IoTasks : FlushBody(t)

SpecIO == Init /\ [][NextIO]_vars

\* concurrent Write calls on port COM3, interleaved with opening and closing
\* it
NextWrite ==
  \/ OpenPort("COM3", DefaultConfig, "", TRUE)
  \/ \E i \in 1..MaxSessions : ClosePort("COM3", i)
  \/ \E t \in Tasks, i \in 1..MaxSessions :
       Begin(t, "Write", "COM3", i, DefaultConfig, None, MaxChunk)
  \/ \E t \in Tasks : Lock(t)
  \/ \E t \in Tasks : WriteBody(t)

SpecWrite == Init /\ [][NextWrite]_vars

\* SubscribeToReads and UnsubscribeFromReads by concurrent clients of port
\* COM3, interleaved with opening and closing it
SubCall(t) ==
  \/ \E i \in 1..MaxSessions :
       Begin(t, "Subscribe", "COM3", i, DefaultConfig, None, 0)
  \/ \E i \in 1..MaxSessions, ch \in ChanRefs :
       Begin(t, "Unsubscribe", "COM3", i, DefaultConfig, ch, 0)

NextSub ==
  \/ OpenPort("COM3", DefaultConfig, "", TRUE)
  \/ \E i \in 1..MaxSessions : ClosePort("COM3", i)
  \/ CloseAll
  \/ \E t \in Tasks : SubCall(t)
  \/ \E t \in Tasks : SubscribeBody(t)
  \/ \E t \in Tasks : UnsubscribeBody(t)

SpecSub == Init /\ [][NextSub]_vars

\* one StreamRead call whose Reader serves further subscribers, on a port
\* that is opened once and closed
NextReader ==
  \/ Len(heap) = 0 /\ OpenPort("COM3", DefaultConfig, "", TRUE)
  \/ \E i \in 1..MaxSessions : ClosePort("COM3", i)
  \/ \E i \in 1..MaxSessions : Len(readers) = 0 /\ StreamReadBegin("COM3", i)
  \/ \E r \in DOMAIN readers : StreamStart(r)
  \/ \E r \in DOMAIN readers : StreamSubscribe(r)
  \/ \E r \in DOMAIN readers : StreamRecv(r)
  \/ \E r \in DOMAIN readers : Subscribe(r)
  \/ \E r \in DOMAIN readers, ch \in ChanRefs : Unsubscribe(r, ch)
  \/ \E ch \in ChanRefs : Consume(ch)
  \/ \E r \in DOMAIN readers : LoopCheck(r)
  \/ \E r \in DOMAIN readers : LoopRead(r)
  \/ \E r \in DOMAIN readers : LoopLock(r)
  \/ \E r \in DOMAIN readers : LoopIO(r)
  \/ \E r \in DOMAIN readers : LoopBroadcast(r)

SpecReader == Init /\ [][NextReader]_vars

\* concurrent StreamRead calls on one open port
NextStream ==
  \/ OpenPort("COM3", DefaultConfig, "", TRUE)
  \/ \E i \in 1..MaxSessions : StreamReadBegin("COM3", i)
  \/ \E r \in DOMAIN readers : StreamStart(r)
  \/ \E r \in DOMAIN readers : StreamSubscribe(r)
  \/ \E r \in DOMAIN readers : StreamRecv(r)
  \/ \E r \in DOMAIN readers : ClientCancel(r)
  \/ \E r \in DOMAIN readers : StreamReturn(r)
  \/ \E r \in DOMAIN readers : LoopCheck(r)
  \/ \E r \in DOMAIN readers : LoopRead(r)
  \/ \E r \in DOMAIN readers : LoopLock(r)
  \/ \E r \in DOMAIN readers : LoopIO(r)
  \/ \E r \in DOMAIN readers : LoopBroadcast(r)

SpecStream == Init /\ [][NextStream]_vars

\* a StreamRead call whose client cancels: the read loop and the deferred
\* function both stop the Reader
NextStop ==
  \/ ~Panicked /\ Len(heap) = 0 /\ OpenPort("COM3", DefaultConfig, "", TRUE)
  \/ ~Panicked /\ \E i \in 1..MaxSessions : StreamReadBegin("COM3", i)
  \/ ~Panicked /\ \E r \in DOMAIN readers : StreamStart(r)
  \/ ~Panicked /\ \E r \in DOMAIN readers : StreamSubscribe(r)
  \/ ~Panicked /\ \E r \in DOMAIN readers : StreamRecv(r)
  \/ ~Panicked /\ \E r \in DOMAIN readers : ClientCancel(r)
  \/ ~Panicked /\ \E r \in DOMAIN readers : LoopCancel(r)
  \/ ~Panicked /\ \E r \in DOMAIN readers : DeferStop(r)
  \/ ~Panicked /\ \E r \in DOMAIN readers, w \in StopCallers : StopLoad(r, w)
  \/ ~Panicked /\ \E r \in DOMAIN readers, w \in StopCallers : StopStore(r, w)
  \/ ~Panicked /\ \E r \in DOMAIN readers, w \in StopCallers : StopSelect(r, w)
  \/ ~Panicked /\ \E r \in DOMAIN readers, w \in StopCallers : StopClose(r, w)
  \/ ~Panicked /\ \E r \in DOMAIN readers, w \in StopCallers : StopSubs(r, w)
  \/ ~Panicked /\ \E r \in DOMAIN readers : LoopStopped(r)
  \/ ~Panicked /\ \E r \in DOMAIN readers : DeferStopped(r)

SpecStop == Init /\ [][NextStop]_vars

\* Start calls by concurrent tasks on Readers of port COM3, interleaved with
\* opening and closing it
NextStart ==
  \/ OpenPort("COM3", DefaultConfig, "", TRUE)
  \/ \E i \in 1..MaxSessions : ClosePort("COM3", i)
  \/ \E i \in 1..MaxSessions : MakeReader("COM3", i)
  \/ \E t \in Tasks, r \in DOMAIN readers : StartCall(t, r)
  \/ \E t \in Tasks : StartLoad(t)
  \/ \E t \in Tasks : StartValidate(t)
  \/ \E t \in Tasks : StartStore(t)
  \/ \E t \in Tasks : StartMake(t)
  \/ \E t \in Tasks : StartGo(t)

SpecStart == Init /\ [][NextStart]_vars

\* the config messages of the ConfigurePort requests: between them they
\* carry every enum value, scalar fields at and beyond their limits, and one
\* request has no message
PbConfigs ==
  {PbDefault,
   [PbDefault EXCEPT !.Parity = "PARITY_ODD", !.StopBits = "STOP_BITS_1_5",
                     !.FlowControl = "FLOW_CONTROL_SOFTWARE",
                     !.DataBits = 5, !.WriteTimeoutMs = 0],
   [PbDefault EXCEPT !.Parity = "PARITY_EVEN", !.BaudRate = 300,
                     !.DataBits = 6],
   [PbDefault EXCEPT !.Parity = "PARITY_SPACE", !.BaudRate = 115200],
   [nil |-> FALSE, BaudRate |-> 250000, DataBits |-> 7,
    StopBits |-> "STOP_BITS_2", Parity |-> "PARITY_MARK",
    FlowControl |-> "FLOW_CONTROL_HARDWARE",
    ReadTimeoutMs |-> 0, WriteTimeoutMs |-> 250],
   [PbDefault EXCEPT !.BaudRate = 200],
   [PbDefault EXCEPT !.DataBits = 4],
   NilConfig}

\* ConfigurePort requests on port COM3, interleaved with opening it
\* (exclusively or shared) and closing it
NextConfig ==
  \/ \E e \in BOOLEAN : OpenPort("COM3", DefaultConfig, "", e)
  \/ \E i \in 1..MaxSessions : ClosePort("COM3", i)
  \/ \E t \in IoTasks, i \in 1..MaxSessions, c \in PbConfigs :
       ConfigurePort(t, "COM3", i, c)
  \/ \E t \in IoTasks : Lock(t)
  \/ \E t \in IoTasks : ConfigureBody(t)

SpecConfig == Init /\ [][NextConfig]_vars

\* the config messages of the requests of NextFrame
FrameConfigs ==
  {[nil |-> FALSE, BaudRate |-> 250000, DataBits |-> 7,
    StopBits |-> "STOP_BITS_2", Parity |-> "PARITY_MARK",
    FlowControl |-> "FLOW_CONTROL_HARDWARE",
    ReadTimeoutMs |-> 0, WriteTimeoutMs |-> 250],
   [PbDefault EXCEPT !.BaudRate = 200]}

\* ConfigurePort requests on a session of port COM3 that has written bytes
\* and has subscribers
NextFrame ==
  \/ OpenPort("COM3", DefaultConfig, "", TRUE)
  \/ \E i \in 1..MaxSessions : ClosePort("COM3", i)
  \/ \E t \in IoTasks, i \in 1..MaxSessions :
       Begin(t, "Write", "COM3", i, DefaultConfig, None, MaxChunk)
  \/ \E t \in IoTasks, i \in 1..MaxSessions :
       Begin(t, "Subscribe", "COM3", i, DefaultConfig, None, 0)
  \/ \E t \in IoTasks, i \in 1..MaxSessions, c \in FrameConfigs :
       ConfigurePort(t, "COM3", i, c)
  \/ \E t \in IoTasks : Lock(t)
  \/ \E t \in IoTasks : WriteBody(t)
  \/ \E t \in IoTasks : SubscribeBody(t)
  \/ \E t \in IoTasks : ConfigureBody(t)

SpecFrame == Init /\ [][NextFrame]_vars

\* the read loop of the Reader of one StreamRead call on port COM3, while the
\* manager closes the port's sessions and the port is opened again
NextLoop ==
  \/ OpenPort("COM3", DefaultConfig, "", TRUE)
  \/ CloseAll
  \/ \E i \in 1..MaxSessions : Len(readers) = 0 /\ StreamReadBegin("COM3", i)
  \/ \E r \in DOMAIN readers : StreamStart(r)
  \/ \E r \in DOMAIN readers : StreamSubscribe(r)
  \/ \E r \in DOMAIN readers : StreamRecv(r)
  \/ \E r \in DOMAIN readers : StreamReturn(r)
  \/ \E r \in DOMAIN readers : LoopCheck(r)
  \/ \E r \in DOMAIN readers : LoopRead(r)
  \/ \E r \in DOMAIN readers : LoopLock(r)
  \/ \E r \in DOMAIN readers : LoopIO(r)
  \/ \E r \in DOMAIN readers : LoopBroadcast(r)
  \/ \E r \in DOMAIN readers : LoopStop(r)

SpecLoop == Init /\ [][NextLoop]_vars

\* several StreamRead calls on port COM3, which is opened once and closed:
\* the calls of the facade, without the steps of the read loops they start
NextStreamClose ==
  \/ Len(heap) = 0 /\ OpenPort("COM3", DefaultConfig, "", TRUE)
  \/ \E i \in 1..MaxSessions : ClosePort("COM3", i)
  \/ \E i \in 1..MaxSessions : StreamReadBegin("COM3", i)
  \/ \E r \in DOMAIN readers : StreamStart(r)
  \/ \E r \in DOMAIN readers : StreamSubscribe(r)
  \/ \E r \in DOMAIN readers : StreamRecv(r)
  \/ \E r \in DOMAIN readers : ClientCancel(r)
  \/ \E r \in DOMAIN readers : StreamReturn(r)

SpecStreamClose == Init /\ [][NextStreamClose]_vars

\* one StreamRead call whose client may cancel at any moment: the call, its
\* read loop, and the two calls of Reader.Stop statement by statement
NextCancel ==
  \/ ~Panicked /\ Len(heap) = 0 /\ OpenPort("COM3", DefaultConfig, "", TRUE)
  \/ ~Panicked /\ \E i \in 1..MaxSessions :
                     Len(readers) = 0 /\ StreamReadBegin("COM3", i)
  \/ ~Panicked /\ \E r \in DOMAIN readers : StreamStart(r)
  \/ ~Panicked /\ \E r \in DOMAIN readers : StreamSubscribe(r)
  \/ ~Panicked /\ \E r \in DOMAIN readers : StreamRecv(r)
  \/ ~Panicked /\ \E r \in DOMAIN readers : ClientCancel(r)
  \/ ~Panicked /\ \E r \in DOMAIN readers :
                     ~(readers[r].running /\ readers[r].ctxDone) /\ LoopCheck(r)
  \/ ~Panicked /\ \E r \in DOMAIN readers : LoopRead(r)
  \/ ~Panicked /\ \E r \in DOMAIN readers : LoopLock(r)
  \/ ~Panicked /\ \E r \in DOMAIN readers : LoopIO(r)
  \/ ~Panicked /\ \E r \in DOMAIN readers : LoopBroadcast(r)
  \/ ~Panicked /\ \E r \in DOMAIN readers : LoopCancel(r)
  \/ ~Panicked /\ \E r \in DOMAIN readers : DeferStop(r)
  \/ ~Panicked /\ \E r \in DOMAIN readers, w \in StopCallers : StopLoad(r, w)
  \/ ~Panicked /\ \E r \in DOMAIN readers, w \in StopCallers : StopStore(r, w)
  \/ ~Panicked /\ \E r \in DOMAIN readers, w \in StopCallers : StopSelect(r, w)
  \/ ~Panicked /\ \E r \in DOMAIN readers, w \in StopCallers : StopClose(r, w)
  \/ ~Panicked /\ \E r \in DOMAIN readers, w \in StopCallers : StopSubs(r, w)
  \/ ~Panicked /\ \E r \in DOMAIN readers : LoopStopped(r)
  \/ ~Panicked /\ \E r \in DOMAIN readers : DeferStopped(r)

SpecCancel == Init /\ [][NextCancel]_vars

\* the operations of the Manager, the Readers and the facade's ClosePort run
\* by concurrent tasks on the sessions and Readers of the program, guard
\* statement by guard statement
NextLocks ==
  \/ \E t \in Tasks, op \in LockOps, s \in 0..MaxSessions, r \in 0..MaxReaders :
       LockCall(t, op, s, r)
  \/ \E t \in Tasks : LockWant(t)
  \/ \E t \in Tasks : LockAcquire(t)
  \/ \E t \in Tasks : RLockAcquire(t)
  \/ \E t \in Tasks : LockRelease(t)
  \/ \E t \in Tasks : DriverCall(t)
  \/ \E t \in Tasks : LockReturn(t)

SpecLocks == Init /\ [][NextLocks]_vars

\* every operation that makes, closes or sends on a subscriber channel of a
\* Session or of a Reader, on a port that is opened once: Read and broadcast
\* by the read loop, subscribe and unsubscribe on both, ClosePort (which
\* runs Reader.Stop) and CloseAll, all called with the session's id
NextChans ==
  \/ Len(heap) = 0 /\ OpenPort("COM3", DefaultConfig, "", TRUE)
  \/ ClosePort("COM3", 1)
  \/ CloseAll
  \/ \E t \in IoTasks : Begin(t, "Subscribe", "COM3", 1, DefaultConfig, None, 0)
  \/ \E t \in IoTasks, ch \in ChanRefs :
       /\ chans[ch].owner = 1
       /\ Begin(t, "Unsubscribe", "COM3", 1, DefaultConfig, ch, 0)
  \/ \E t \in IoTasks : SubscribeBody(t)
  \/ \E t \in IoTasks : UnsubscribeBody(t)
  \/ Len(readers) = 0 /\ StreamReadBegin("COM3", 1)
  \/ \E r \in DOMAIN readers : StreamStart(r)
  \/ \E r \in DOMAIN readers : StreamSubscribe(r)
  \/ \E r \in DOMAIN readers : Subscribe(r)
  \/ \E r \in DOMAIN readers, ch \in ChanRefs : Unsubscribe(r, ch)
  \/ \E r \in DOMAIN readers : LoopCheck(r)
  \/ \E r \in DOMAIN readers : LoopRead(r)
  \/ \E r \in DOMAIN readers : LoopLock(r)
  \/ \E r \in DOMAIN readers : LoopIO(r)
  \/ \E r \in DOMAIN readers : LoopBroadcast(r)

SpecChans == Init /\ [][NextChans]_vars

\* Write requests with and without flush by concurrent clients of port
\* COM3, interleaved with opening and closing it
NextServerWrite ==
  \/ OpenPort("COM3", DefaultConfig, "", TRUE)
  \/ \E i \in 1..MaxSessions : ClosePort("COM3", i)
  \/ \E t \in Tasks, i \in 1..MaxSessions, flush \in BOOLEAN :
       ServerWrite(t, "COM3", i, MaxChunk, flush)
  \/ \E t \in Tasks : Lock(t)
  \/ \E t \in Tasks : ServerWriteBody(t)
  \/ \E t \in Tasks : ServerFlush(t)
  \/ \E t \in Tasks : ServerFlushBody(t)

SpecServerWrite == Init /\ [][NextServerWrite]_vars

\* a port watch, its ticks and the calls that stop it
NextWatch ==
  \/ \E i \in {0, 2} : WatchPorts(i)
  \/ \E c \in {None, 1} : StopWatch(c)
  \/ WatchStopCase
  \/ \E ok \in BOOLEAN, ports \in SUBSET Ports : WatchTickCase(ok, ports)

SpecWatch == Init /\ [][NextWatch]_vars

\* a LineReader over every channel content of up to MaxEvents events
InitLineReader ==
  /\ InitManager
  /\ defaults = SerialDefaults
  /\ watch = NoWatch
  /\ \E m \in {0, MaxLineSize}, events \in EventSeqs(MaxEvents) :
       lineReader = NewLineReader(LineFeed, m, events)

NextLineReader ==
  \/ ReadLine

SpecLineReader == InitLineReader /\ [][NextLineReader]_vars

\* a server loaded with any serial defaults that Config.Validate accepts
InitDefaults ==
  /\ InitManager
  /\ defaults \in {d \in DefaultsValues : ValidateDefaults(d)}
  /\ watch = NoWatch
  /\ lineReader = NoLineReader

\* OpenPort and ConfigurePort without a config, and ClosePort
NextDefaults ==
  \/ \E e \in BOOLEAN :
       OpenPort("COM3", convertToSerialConfig(NilConfig), "", e)
  \/ \E i \in 1..MaxSessions : ClosePort("COM3", i)
  \/ \E t \in IoTasks, i \in 1..MaxSessions :
       ConfigurePort(t, "COM3", i, NilConfig)
  \/ \E t \in IoTasks : Lock(t)
  \/ \E t \in IoTasks : ConfigureBody(t)

SpecDefaults == InitDefaults /\ [][NextDefaults]_vars

\* ------------------------------------------------------------------ claims
\* C1: for every port name at most one Session that is not closed exists,
\* after any sequence of open_port, close_port and close_all calls.
C1_AtMostOneOpenSessionPerPort ==
  \A p \in Ports :
    Cardinality({s \in SessionRefs : heap[s].PortName = p /\ ~heap[s].closed}) <= 1

\* C2: the two indexes agree: a session's id is a key of the id-index if and
\* only if the port-name index maps the session's port name to that session.
C2_IndexesAgree ==
  \A s \in SessionRefs :
    (sessionsByID[heap[s].ID] = s) <=> (sessions[heap[s].PortName] = s)

\* the collision rule as the specification states it
Collision(p, exclusive) ==
  /\ sessions[p] # None
  /\ (heap[sessions[p]].Exclusive \/ exclusive \/ ~allowSharedAccess)

\* the manager's state and the driver are untouched
ManagerUnchanged == UNCHANGED <<sessions, sessionsByID, heap, chans, closedOK>>

C4_SharedOpenReturnsExisting ==
  [][\A p \in Ports, q \in OpenRequests :
       (/\ Validate(q.config)
        /\ sessions[p] # None
        /\ ~heap[sessions[p]].Exclusive
        /\ allowSharedAccess
        /\ OpenPort(p, q.config, q.client, FALSE))
         => /\ last'.err = ErrNil
            /\ last'.ret = sessions[p]
            /\ sessions'[p] = sessions[p]
            /\ heap' = heap]_vars

\* C9 as stated: once close_port(name, id) has succeeded, validate_session
\* (name, id) yields PortClosed or PortNotOpen.
C9_ClosedIsClosedOrNotOpen ==
  \A s \in closedOK :
    ValidateSession(heap[s].PortName, heap[s].ID).err
      \in {ErrPortClosed, ErrPortNotOpen}

\* C9 as amended: it never yields the session again: PortNotOpen while the
\* port has no session, InvalidSession once the port has been opened again.
C9_ClosedNeverValidates ==
  \A s \in closedOK :
    ValidateSession(heap[s].PortName, heap[s].ID).err =
      IF sessions[heap[s].PortName] = None THEN ErrPortNotOpen
      ELSE ErrInvalidSession

\* a port closed by close_port and opened again
C9_Witness ==
  \E s \in closedOK : sessions[heap[s].PortName] \notin {None, s}

\* C8: after a session has been closed, every channel SubscribeToReads
\* returned for it is closed and its subscriber list is empty, however
\* subscribe and unsubscribe interleave with the close.
C8_ClosedSessionHasNoOpenChannel ==
  \A s \in SessionRefs :
    heap[s].closed =>
      /\ heap[s].readers = <<>>
      /\ \A c \in ChanRefs : chans[c].owner = s => chans[c].closed

\* C10: an operation that validated the session before close_port and
\* reaches the driver call after it fails with PortClosed and issues no
\* driver call on the closed handle.
C10_ClosedSessionRefusesIO ==
  [][\A t \in Tasks :
       (/\ tasks[t].pc = "locked"
        /\ tasks[t].op \in IoOps
        /\ heap[tasks[t].sref].closed
        /\ tasks'[t].pc = "idle")
         => /\ last'.err = ErrPortClosed
            /\ last'.driver = {}
            /\ ~last'.onClosed]_vars

\* the events channel c has carried to its consumer or still holds
Seen(c) == chans[c].recv \o chans[c].buf

\* the sequence numbers of a list of events
Seqs(events) == {events[i].seq : i \in DOMAIN events}

\* the chunks of a list of events
ChunkIds(events) == {events[i].data.id : i \in {j \in DOMAIN events : events[j].data.n > 0}}

\* C5: a StreamRead client that drains every event without delay has received
\* every chunk the driver returned for the port since it subscribed, whatever
\* the other StreamRead clients of the port do.
C5_PromptClientLosesNothing ==
  \A r \in DOMAIN readers :
    LET c == readers[r].sub
        p == readers[r].portName
    IN (/\ readers[r].call = "streaming"
        /\ ~readers[r].ctxDone
        /\ ~chans[c].closed
        /\ chans[c].buf = <<>>
        /\ chans[c].dropped = {}
        /\ \A q \in DOMAIN readers :
             readers[q].portName = p => readers[q].pc # "event")
         => \A id \in (chans[c].from + 1)..driverReads[p] :
              id \in ChunkIds(chans[c].recv)

\* C6: a subscriber whose channel is full does not hold up the others: the
\* broadcast is never blocked, it puts the event on every subscriber channel
\* with free space, and the loop moves on.
C6_FullSubscriberBlocksNobody ==
  /\ [](\A r \in DOMAIN readers :
          readers[r].pc = "event" => ENABLED LoopBroadcast(r))
  /\ [][\A r \in DOMAIN readers :
          LoopBroadcast(r) =>
            /\ readers'[r].pc \in {"check", "stop"}
            /\ \A c \in Range(readers[r].subscribers) :
                 Len(chans[c].buf) < ChanCap =>
                   /\ Len(chans'[c].buf) = Len(chans[c].buf) + 1
                   /\ chans'[c].buf[Len(chans'[c].buf)].seq = readers'[r].sequence]_vars

\* one subscriber has received an event that was dropped for another
\* subscriber of the same Reader, whose channel was full
C6_Witness ==
  \E r \in DOMAIN readers :
    \E c, d \in Range(readers[r].subscribers) :
      /\ c # d
      /\ Len(chans[c].buf) = ChanCap
      /\ chans[c].dropped \cap Seqs(chans[d].recv) # {}

\* C7: what a subscriber of a Reader receives is a subsequence of what the
\* loop produced: sequence numbers strictly increase, the numbers missing
\* between two received events are exactly those dropped for the subscriber,
\* and chunks arrive in the order the driver returned them.
C7_SubsequenceInOrder ==
  \A c \in ChanRefs :
    chans[c].owner = None =>
      LET seen == Seen(c)
      IN /\ \A i, j \in DOMAIN seen : i < j => seen[i].seq < seen[j].seq
         /\ \A i \in 1..(Len(seen) - 1) :
              \A n \in (seen[i].seq + 1)..(seen[i + 1].seq - 1) :
                n \in chans[c].dropped
         /\ chans[c].dropped \cap Seqs(seen) = {}
         /\ \A i, j \in DOMAIN seen :
              (i < j /\ seen[i].data.n > 0 /\ seen[j].data.n > 0)
                => seen[i].data.id < seen[j].data.id

\* a subscriber has received the events before and after one dropped for it
C7_Witness ==
  \E c \in ChanRefs :
    /\ chans[c].owner = None
    /\ \E n \in chans[c].dropped :
         {n - 1, n + 1} \subseteq Seqs(chans[c].recv)

\* C11: ClosePort with a session id that is not the id of the port's session
\* answers success=false, "invalid session ID", and changes nothing: the
\* session, both indexes, the subscriber channels, and the Reader streaming
\* from the port, which keeps running and stays registered.
C11_WrongIdClosesNothing ==
  [][\A p \in Ports, i \in 1..MaxSessions :
       (/\ sessions[p] # None
        /\ heap[sessions[p]].ID # i
        /\ ClosePort(p, i))
         => /\ last'.success = FALSE
            /\ last'.code = "OK"
            /\ last'.message = "invalid session ID"
            /\ UNCHANGED <<sessions, sessionsByID, heap, chans, readers,
                           srvReaders>>]_vars

\* C12: close_port with the id open_port returned undoes the open: the port
\* name has no session, the id is in the id-index no more, the session's
\* driver handle is closed, nothing else in the indexes moves, and the
\* collision rule lets the port be opened again at once.
C12_CloseUndoesOpen ==
  [][\A p \in Ports, i \in 1..MaxSessions :
       (/\ sessions[p] # None
        /\ heap[sessions[p]].ID = i
        /\ ClosePort(p, i))
         => /\ sessions'[p] = None
            /\ sessionsByID'[i] = None
            /\ heap'[sessions[p]].closed
            /\ ~heap'[sessions[p]].portOpen
            /\ \A q \in Ports \ {p} : sessions'[q] = sessions[q]
            /\ \A j \in (1..MaxSessions) \ {i} : sessionsByID'[j] = sessionsByID[j]
            /\ \A e \in BOOLEAN : ~(PortIsLocked(p, e))']_vars

\* a port whose session close_port has just closed
C12_Witness ==
  /\ last.op = "ClosePort"
  /\ last.success
  /\ \E s \in closedOK :
       /\ sessions[heap[s].PortName] = None
       /\ sessionsByID[heap[s].ID] = None
       /\ ~heap[s].portOpen

\* C13: a session's life is one-way: a closed session stays closed and is in
\* neither index again; a session keeps its id, port name and client id; and
\* the Session an open creates has an id no earlier Session had.
C13_LifeIsOneWay ==
  [][/\ \A s \in SessionRefs :
          /\ heap[s].closed =>
               /\ heap'[s].closed
               /\ sessions'[heap[s].PortName] # s
               /\ sessionsByID'[heap[s].ID] # s
          /\ heap'[s].ID = heap[s].ID
          /\ heap'[s].PortName = heap[s].PortName
          /\ heap'[s].ClientID = heap[s].ClientID
     /\ \A n \in (DOMAIN heap') \ SessionRefs :
          \A s \in SessionRefs : heap'[n].ID # heap[s].ID]_vars

\* a port opened again after its session was closed
C13_Witness ==
  \E s, n \in SessionRefs :
    /\ s < n
    /\ heap[s].closed
    /\ ~heap[n].closed
    /\ heap[n].PortName = heap[s].PortName
    /\ sessions[heap[n].PortName] = n

\* task t completes a Write on session s in this step
WriteReturns(t, s) ==
  /\ tasks[t].pc = "locked"
  /\ tasks[t].op = "Write"
  /\ tasks[t].sref = s
  /\ tasks'[t].pc = "idle"

\* C14: bytes_sent of a session never decreases: a write that returns
\* successfully adds exactly the count the driver reported, a failed write
\* and every other step add nothing, however the writes interleave.
C14_BytesSentIsSumOfWrites ==
  [][\A s \in SessionRefs :
       heap'[s].BytesSent =
         heap[s].BytesSent +
           (IF (\E t \in Tasks : WriteReturns(t, s)) /\ last'.err = ErrNil
              THEN last'.ret ELSE 0)]_vars

\* a write has added to bytes_sent of a session and a write that moved a byte
\* has just failed
C14_Witness ==
  /\ last.op = "Write"
  /\ last.err = ErrWriteFailed
  /\ last.ret > 0
  /\ ~last.onClosed
  /\ \E s \in SessionRefs : heap[s].BytesSent > 0

\* C15: Reader.Stop is idempotent however its calls overlap: the stop channel
\* is closed once, every subscriber channel is closed once, and no call
\* fails.
C15_StopClosesOnce ==
  /\ \A r \in DOMAIN readers :
       /\ readers[r].stopCloses <= 1
       /\ \A w \in StopCallers : readers[r].stop[w] # "panic"
  /\ \A c \in ChanRefs : chans[c].closes <= 1

\* C16: Start on a running Reader returns success and does nothing, and a
\* Reader never has more than one read loop, also when two tasks call Start
\* at once.
C16_OneReadLoop ==
  \A r \in DOMAIN readers : readers[r].loops <= 1

\* C17: after CloseAll, whatever sequence of opens (exclusive or shared) came
\* before it, every session ever created is closed, every subscriber channel
\* is closed, no port is listed as open, both indexes are empty and every
\* driver handle that was opened has been closed.
C17_CloseAllClosesEverything ==
  last.op = "CloseAll" =>
    /\ \A s \in DOMAIN heap : heap[s].closed /\ ~heap[s].portOpen
    /\ \A c \in DOMAIN chans : chans[c].closed
    /\ \A p \in Ports : sessions[p] = None
    /\ \A i \in DOMAIN sessionsByID : sessionsByID[i] = None

C19_ConfigureChangesOnlyConfig ==
  [][(last'.op = "Configure" /\ last'.err = ErrNil) =>
       /\ sessions' = sessions
       /\ sessionsByID' = sessionsByID
       /\ chans' = chans
       /\ (GetPortStatus("COM3").SessionId)' = GetPortStatus("COM3").SessionId
       /\ DOMAIN heap' = DOMAIN heap
       /\ \A x \in DOMAIN heap :
            /\ heap'[x].ID = heap[x].ID
            /\ heap'[x].PortName = heap[x].PortName
            /\ heap'[x].ClientID = heap[x].ClientID
            /\ heap'[x].Exclusive = heap[x].Exclusive
            /\ heap'[x].BytesSent = heap[x].BytesSent
            /\ heap'[x].BytesReceived = heap[x].BytesReceived
            /\ heap'[x].Errors = heap[x].Errors
            /\ heap'[x].readers = heap[x].readers
            /\ heap'[x].closed = heap[x].closed
            /\ x # last'.session => heap'[x].Config = heap[x].Config]_vars

C19_Witness ==
  /\ last.op = "Configure"
  /\ last.err = ErrNil
  /\ GetPortStatus("COM3").SessionId = heap[last.session].ID
  /\ GetPortStatus("COM3").CurrentConfig = last.req
  /\ heap[last.session].Config # DefaultConfig
  /\ heap[last.session].BytesSent > 0
  /\ heap[last.session].Errors > 0
  /\ Len(heap[last.session].readers) > 0

\* C20: when the session of a running Reader has been closed (close_port or
\* close_all) and nobody has called Stop, the next read the loop starts ends
\* with a terminal error, so the loop stops the Reader and exits.
C20_ReadAfterCloseEndsLoop ==
  [][\A r \in DOMAIN readers :
       (/\ readers[r].pc = "read"
        /\ readers[r].running
        /\ heap[readers[r].sessionID].closed
        /\ readers'[r].pc # "read")
         => IsFatal(readers'[r].err)]_vars

\* C21: after a ClosePort on a port has succeeded, no Reader that a StreamRead
\* call started for the port is still running, also when several StreamRead
\* calls were active on the port.
C21_CloseStopsEveryReader ==
  (last.op = "ClosePort" /\ last.success) =>
    \A r \in DOMAIN readers :
      readers[r].portName = "COM3" => ~readers[r].running

\* C22: when the client of a StreamRead call has cancelled, the call has
\* returned and the read loop has exited, the call's Reader is not running
\* and its subscriber channels are closed.
C22_CancelledStreamIsTornDown ==
  \A r \in DOMAIN readers :
    (/\ readers[r].ctxDone
     /\ readers[r].call = "returned"
     /\ readers[r].pc = "done")
      => /\ ~readers[r].running
         /\ readers[r].sub # None => chans[readers[r].sub].closed

\* the place of a guard in the order the code takes the guards in
GuardRank(g) ==
  CASE g[1] = "s.readersMu" -> 1
    [] g[1] = "m.mu" -> 1
    [] g[1] = "session.mu" -> 2
    [] g[1] = "session.readersMu" -> 3
    [] g[1] = "r.subMu" -> 3

\* C23: no interleaving of the operations deadlocks: while a task is inside
\* an operation some task can take a step, and the manager guard, the
\* per-session guard, the session subscriber guard and the Reader subscriber
\* guard are taken in one order, never in a cycle.
C23_NoDeadlock ==
  /\ (\E t \in Tasks : InLocks(t)) => \E t \in Tasks : ENABLED LockStep(t)
  /\ \A t \in Tasks :
       (InLocks(t) /\ Statement(t)[1] \in {"Lock", "RLock"}) =>
         \A h \in tasks[t].held :
           GuardRank(h[1]) < GuardRank(Statement(t)[2])

C23_Witness ==
  /\ InLocks(1) /\ InLocks(2)
  /\ <<ManagerMu, "W">> \in tasks[1].held
  /\ <<SessionReadersMu(1), "W">> \in tasks[1].held
  /\ <<SessionMu(1), "W">> \in tasks[2].held
  /\ Statement(2) = <<"RLock", SessionReadersMu(1)>>
  /\ ~ENABLED LockStep(2)

\* C24: no subscriber channel of a Session or of a Reader is closed twice,
\* and no broadcast (Manager.Read's or the read loop's) sends on a closed
\* channel, however read, subscribe, unsubscribe, ClosePort, CloseAll and
\* Reader.Stop interleave.
C24_ChannelsClosedOnceNoSendOnClosed ==
  /\ \A c \in ChanRefs :
       /\ chans[c].closes <= 1
       /\ ~chans[c].sentClosed
  /\ \A s \in DOMAIN heap : \A c \in Range(heap[s].readers) : ~chans[c].closed
  /\ \A r \in DOMAIN readers :
       \A c \in Range(readers[r].subscribers) : ~chans[c].closed

\* a Session channel closed by ClosePort and a Reader channel closed by Stop,
\* both after the read loop broadcast on them
C24_Witness ==
  /\ \E c \in ChanRefs :
       /\ chans[c].owner # None /\ chans[c].closes = 1
       /\ Len(chans[c].buf) > 0
  /\ \E c \in ChanRefs :
       /\ chans[c].owner = None /\ chans[c].closes = 1
       /\ Len(chans[c].buf) > 0

\* C25: Reader.Subscribe on a stopped Reader is a no-op: the channel it
\* returns is already closed and the subscriber set stays empty.
C25_SubscribeAfterStopIsNoOp ==
  \A r \in DOMAIN readers :
    (/\ last.op = "Reader.Subscribe"
     /\ readers[r].stopClosed
     /\ ~readers[r].running)
      => /\ chans[last.ret].closed
         /\ readers[r].subscribers = <<>>

\* C26 as stated: when Manager.Read fails with ErrPortClosed or
\* ErrInvalidSession the read loop ends silently, no event carrying that
\* error is sent to a subscriber.
C26_NoFatalErrorEvent ==
  \A c \in ChanRefs :
    chans[c].owner = None =>
      \A i \in DOMAIN Seen(c) :
        Seen(c)[i].err \notin {ErrPortClosed, ErrInvalidSession}

\* C26 amended: an event carrying ErrPortClosed or ErrInvalidSession is
\* broadcast like any other, and it is the last event of the Reader: the
\* loop stops the Reader after it, so nothing follows it on any subscriber
\* channel and the channels are closed once the loop is done.
C26_FatalErrorEventIsLast ==
  /\ \A c \in ChanRefs :
       chans[c].owner = None =>
         \A i \in DOMAIN Seen(c) :
           Seen(c)[i].err \in {ErrPortClosed, ErrInvalidSession}
             => i = Len(Seen(c))
  /\ \A r \in DOMAIN readers :
       (/\ readers[r].pc = "done" /\ readers[r].sub # None
        /\ Seen(readers[r].sub) # <<>>
        /\ Seen(readers[r].sub)[Len(Seen(readers[r].sub))].err
              \in {ErrPortClosed, ErrInvalidSession})
         => chans[readers[r].sub].closed /\ ~readers[r].running

\* the client of StreamRead has received an event carrying
\* ErrInvalidSession and the loop is done
C26_Witness ==
  \E r \in DOMAIN readers :
    /\ readers[r].pc = "done" /\ readers[r].sub # None
    /\ \E i \in DOMAIN chans[readers[r].sub].recv :
         chans[readers[r].sub].recv[i].err = ErrInvalidSession

\* C27: a StreamRead client that drains without delay is sent every chunk
\* its Reader's loop has read from Start on, the chunks read before the
\* facade subscribed included.  (One Reader, whose loop is the only caller
\* of Read: the chunks its loop has read are all the driver returned.)
C27_NothingLostBeforeSubscribe ==
  \A r \in DOMAIN readers :
    LET c == readers[r].sub
        p == readers[r].portName
    IN (/\ readers[r].call = "streaming"
        /\ ~chans[c].closed
        /\ chans[c].buf = <<>>
        /\ chans[c].dropped = {}
        /\ readers[r].pc # "event")
         => \A id \in 1..driverReads[p] : id \in ChunkIds(chans[c].recv)

\* C28: no driver call is made while the manager guard is held: OpenPort,
\* ClosePort and CloseAll have released it when they touch the driver.
C28_NoDriverCallUnderManagerMu ==
  \A t \in Tasks :
    (InLocks(t) /\ Statement(t)[1] = "Driver") =>
      \A h \in tasks[t].held : h[1] # ManagerMu

\* C29: the per-session guard lets at most one of Read, Write, Configure and
\* Flush be in the driver for a given session.
C29_OneDriverCallPerSession ==
  \A t, u \in Tasks :
    (/\ t # u
     /\ InLocks(t) /\ InLocks(u)
     /\ tasks[t].op \in {"Read", "Write", "Configure", "Flush"}
     /\ tasks[u].op \in {"Read", "Write", "Configure", "Flush"}
     /\ Statement(t)[1] = "Driver"
     /\ Statement(u)[1] = "Driver")
      => Statement(t)[2] # Statement(u)[2]

\* a Write is in the driver for session 1 while a Read of the same session
\* waits for the per-session guard
C29_Witness ==
  /\ InLocks(1) /\ InLocks(2)
  /\ tasks[1].op = "Write" /\ Statement(1) = <<"Driver", SessionPort(1)>>
  /\ tasks[2].op = "Read" /\ Statement(2) = <<"Lock", SessionMu(1)>>
  /\ tasks[2].pending

\* C30: an OpenPort that fails changes nothing, whatever made it fail (the
\* configuration is invalid, the port is locked, the driver's open fails,
\* SetReadTimeout fails after the open): both indexes are unchanged, no
\* Session is created, and no driver handle is left open (no driver call
\* before the open, and a handle that was opened is closed again).
C30_FailedOpenChangesNothing ==
  [][(last'.op = "OpenPort" /\ last'.err # ErrNil) =>
       /\ sessions' = sessions
       /\ sessionsByID' = sessionsByID
       /\ heap' = heap
       /\ chans' = chans
       /\ last'.ret = None
       /\ last'.err \in {ErrInvalidConfig, ErrPortLocked} => last'.driver = {}
       /\ last'.err = ErrOpenFailed => last'.driver = {"open"}
       /\ last'.err = ErrSetTimeoutFailed => "close" \in last'.driver]_vars

\* SetReadTimeout failed on a port that was just opened, while another port
\* has a session
C30_Witness ==
  /\ last.op = "OpenPort"
  /\ last.err = ErrSetTimeoutFailed
  /\ last.driver = {"open", "set_read_timeout", "close"}
  /\ \E p \in Ports : sessions[p] # None

\* C31: a Configure that fails (session validation, config validation,
\* SetMode or SetReadTimeout) leaves the stored config of every session as
\* it was and returns the error; the stored config changes only in a
\* Configure step in which no driver step failed, and then to the requested
\* config.
C31_FailedConfigureKeepsConfig ==
  [][/\ (last'.op = "Configure" /\ (last'.err # ErrNil \/ last'.failed # {}))
          => /\ \A s \in DOMAIN heap : heap'[s].Config = heap[s].Config
             /\ Len(heap') = Len(heap)
             /\ last'.err # ErrNil
             /\ ~last'.success
     /\ \A s \in DOMAIN heap :
          heap'[s].Config # heap[s].Config
            => /\ last'.op = "Configure" /\ last'.session = s
               /\ last'.err = ErrNil /\ last'.failed = {}
               /\ last'.success
               /\ \E t \in Tasks : heap'[s].Config = tasks[t].cfg]_vars

\* SetReadTimeout failed after a successful SetMode with another mode than
\* the stored one
C31_Witness ==
  /\ last.op = "Configure"
  /\ last.failed = {"set_read_timeout"}
  /\ last.err = ErrSetTimeoutFailed
  /\ last.mode # ToSerialMode(heap[last.session].Config)

\* C32: the stored config of a session agrees with what was last applied to
\* its handle: when a Configure has handed a mode to the driver and the
\* driver has taken it, the stored config of the session has that mode, also
\* when the Configure failed afterwards at SetReadTimeout.
C32_StoredConfigIsAppliedConfig ==
  (last.op = "Configure" /\ last.mode # NoMode) =>
    ToSerialMode(heap[last.session].Config) = last.mode

\* C33: a Write request with flush=true runs write, then flush, and the
\* flush cannot spoil the answer: the count manager.Write returned is the
\* driver's (the growth of BytesSent), and whenever the write succeeded the
\* answer is success=true with that count as bytes_written, whether the
\* flush succeeded, failed in the driver or was rejected.
C33_FlushErrorNotFatal ==
  [][\A t \in Tasks :
       /\ (tasks[t].pc = "locked" /\ tasks[t].op = "Write"
            /\ tasks'[t].pc = "flush")
            => /\ tasks[t].flush
               /\ tasks'[t].n = heap'[tasks[t].sref].BytesSent
                                  - heap[tasks[t].sref].BytesSent
       /\ (tasks[t].flush /\ tasks[t].pc \in {"flush", "locked"}
            /\ tasks[t].op = (IF tasks[t].pc = "flush" THEN "Write" ELSE "Flush")
            /\ tasks'[t].pc = "idle")
            => /\ last'.op = "SerialServer.Write"
               /\ last'.success
               /\ last'.ret = tasks[t].n
               /\ "write" \in last'.driver]_vars

\* a Write of one byte with flush=true answered success although the driver
\* failed the flush
C33_Witness ==
  /\ last.op = "SerialServer.Write"
  /\ last.success
  /\ last.ret = MaxChunk
  /\ last.failed = {"flush"}
  /\ "reset_input_buffer" \in last.driver

\* C34: a Reader subscriber channel never buffers more events than its
\* capacity (100 in the code, ChanCap here), the broadcast never waits (it
\* can always take its step), and an event is dropped for a subscriber only
\* when the buffer of that subscriber is full at the broadcast: a subscriber
\* with free space gets the event.
C34_DropOnlyWhenFull ==
  /\ [](\A c \in ChanRefs :
          chans[c].owner = None => Len(chans[c].buf) <= ChanCap)
  /\ [](\A r \in DOMAIN readers :
          readers[r].pc = "event" => ENABLED LoopBroadcast(r))
  /\ [][\A c \in ChanRefs :
          chans[c].owner = None =>
            /\ chans'[c].dropped # chans[c].dropped
                 => /\ Len(chans[c].buf) = ChanCap
                    /\ chans'[c].buf = chans[c].buf
            /\ \A r \in DOMAIN readers :
                 (/\ readers[r].pc = "event" /\ readers'[r].pc # "event"
                  /\ c \in Range(readers[r].subscribers)
                  /\ Len(chans[c].buf) < ChanCap)
                   => /\ Len(chans'[c].buf) = Len(chans[c].buf) + 1
                      /\ chans'[c].dropped = chans[c].dropped]_vars

\* a subscriber whose buffer is full again after an event was dropped for it
\* and it had taken the event before
C34_Witness ==
  \E c \in ChanRefs :
    /\ chans[c].owner = None
    /\ Len(chans[c].buf) = ChanCap
    /\ chans[c].dropped # {}
    /\ \E i \in DOMAIN chans[c].recv :
         \A n \in chans[c].dropped : chans[c].recv[i].seq < n
    /\ \A n \in chans[c].dropped : chans[c].buf[1].seq > n

\* task t returns from the driver call of operation op on session s
IoReturns(t, s, op) ==
  /\ tasks[t].pc = "locked"
  /\ tasks[t].op = op
  /\ tasks[t].sref = s
  /\ tasks'[t].pc = "idle"

\* C35: BytesReceived of a session grows by exactly the count of each
\* successful driver read, Errors by exactly one for each failed driver read
\* or write; no other step changes them (a call rejected by the session
\* validation, Configure, Flush, open and close included), so neither ever
\* decreases.
C35_ReceivedAndErrorsCountExactly ==
  [][\A s \in SessionRefs :
       /\ heap'[s].BytesReceived =
            heap[s].BytesReceived +
              (IF (\E t \in Tasks : IoReturns(t, s, "Read")) /\ last'.err = ErrNil
                 THEN last'.ret ELSE 0)
       /\ heap'[s].Errors =
            heap[s].Errors +
              (IF /\ \E t \in Tasks :
                       IoReturns(t, s, "Read") \/ IoReturns(t, s, "Write")
                  /\ last'.err # ErrNil
                 THEN 1 ELSE 0)]_vars

\* a session that has received a byte and counted an error, when a Read with
\* a wrong session id has just been rejected
C35_Witness ==
  /\ last.op = "Read"
  /\ last.err = ErrInvalidSession
  /\ \E s \in SessionRefs : heap[s].BytesReceived > 0 /\ heap[s].Errors > 0

\* C36: an OpenPort whose config fails PortConfig.Validate is answered with
\* the status code InvalidArgument (not Internal, not a success=false body
\* with code OK), and it creates no session.
C36_InvalidConfigIsInvalidArgument ==
  (last.op = "OpenPort" /\ last.err = ErrInvalidConfig) =>
    /\ last.code = "InvalidArgument"
    /\ last.ret = None

\* C37: stopping a port watch is idempotent. Calling StopWatch for the same
\* watch any number of times is safe (no call panics), and no callback of
\* the watch fires after the first StopWatch.
C37_StopWatchIdempotent ==
  /\ ~WatchPanicked
  /\ ~watch.late

RECURSIVE SplitLines(_, _)
\* the input split on the delimiter; a remainder without a delimiter is
\* the last line
SplitLines(input, delimiter) ==
  LET i == DelimiterIndex(input, delimiter)
  IN IF input = <<>> THEN <<>>
     ELSE IF i = 0 THEN <<input>>
     ELSE <<SubSeq(input, 1, i - 1)>>
            \o SplitLines(SubSeq(input, i + 1, Len(input)), delimiter)

\* the channel carried data only, and every line of the input, its
\* delimiter counted, is at most maxLine bytes long
LinesFit ==
  /\ lineReader.made
  /\ Len(lineReader.input) > 0
  /\ \A e \in 1..Len(lineReader.events) : lineReader.events[e].Error = ErrNil
  /\ lineReader.err \in {ErrNil, ErrPortClosed}
  /\ LET ls == SplitLines(lineReader.input, lineReader.delimiter)
     IN \A k \in 1..Len(ls) : Len(ls[k]) + 1 <= lineReader.maxLine

\* C38: LineReader splits the stream on the delimiter however the bytes are
\* cut into events. When every line of the input is at most maxLine bytes,
\* the lines ReadLine has returned so far are the first lines of the input
\* split on the delimiter, none of them holds the delimiter byte, and once
\* the channel is drained they are all of its lines.
C38_LinesAreInputSplit ==
  LinesFit =>
    LET ls == SplitLines(lineReader.input, lineReader.delimiter)
        got == lineReader.lines
    IN /\ Len(got) <= Len(ls)
       /\ \A k \in 1..Len(got) :
            /\ got[k] = ls[k]
            /\ \A j \in 1..Len(got[k]) : got[k][j] # lineReader.delimiter
       /\ lineReader.err = ErrPortClosed => got = ls

\* C39: an OpenPort or ConfigurePort without a config uses the configured
\* serial defaults as SerialDefaults.ToPortConfig converts them: every
\* session opened or configured that way stores that PortConfig, with one
\* stop bit for stop_bits 1 and the configured parity and flow control.
C39_NilConfigIsDefaults ==
  \A s \in DOMAIN heap : heap[s].Config = ToPortConfig(defaults).config

\* the operations that close sessions
ClosingOps == {"ClosePort", "CloseAll", "SerialServer.ClosePort"}

\* task t is at a Lock or RLock of guard g
WaitsOn(t, g) ==
  /\ InLocks(t)
  /\ Statement(t)[1] \in {"Lock", "RLock"}
  /\ Statement(t)[2] = g

\* task u is inside the driver call of a Read or a Write, which may never
\* return
BlockedInDriver(u) ==
  /\ InLocks(u)
  /\ tasks[u].op \in {"Read", "Write"}
  /\ Statement(u)[1] = "Driver"

\* C40: ClosePort and CloseAll never wait for the per-session guard, so a
\* Read or Write blocked inside the driver cannot keep them from completing:
\* no closing operation is ever at a Lock of a Session.mu; a closing
\* operation never waits for a guard that a task blocked in the driver
\* holds; and no task waits for a Session.mu while it holds another guard
\* (so nobody a closing operation waits for is stuck behind the blocked
\* call either).
C40_CloseNeverWaitsForSessionMu ==
  /\ \A t \in Tasks, s \in 1..MaxSessions :
       (InLocks(t) /\ tasks[t].op \in ClosingOps) => ~WaitsOn(t, SessionMu(s))
  /\ \A t, u \in Tasks :
       (/\ t # u
        /\ InLocks(t) /\ tasks[t].op \in ClosingOps
        /\ BlockedInDriver(u))
         => \A h \in tasks[u].held : ~WaitsOn(t, h[1])
  /\ \A v \in Tasks, s \in 1..MaxSessions :
       WaitsOn(v, SessionMu(s)) => tasks[v].held = {}

\* a Read of session 1 is inside the driver, holding the per-session guard,
\* and a ClosePort of session 1 that began after it has run to its return
C40_Witness ==
  /\ BlockedInDriver(1) /\ tasks[1].op = "Read" /\ tasks[1].sref = 1
  /\ <<SessionMu(1), "W">> \in tasks[1].held
  /\ InLocks(2) /\ tasks[2].op = "ClosePort" /\ tasks[2].sref = 1
  /\ Statement(2)[1] = "return"

====
